---- MODULE Spec2Model ----
(***************************************************************************)
(* Model of lotel's collector supervisor (internal/collector/collector.go) *)
(* and of its supervisor state store.                                      *)
(*                                                                         *)
(* The state store is modelled over a small file system: two directory     *)
(* entries (collector.state and collector.state.tmp) pointing at inodes    *)
(* whose contents are sequences of JSON tokens.  The collector is one      *)
(* named Docker container ("lotel-collector").  Every operation of the     *)
(* supervisor is a process that walks through its source statement by      *)
(* statement; the environment may let the container exit at any moment.    *)
(*                                                                         *)
(* Further down: the liveness check of a recorded process identifier, the  *)
(* health probe with WaitHealthy, the ingestion pipeline                   *)
(* (internal/storage/ingest.go) over signal files and database tables,     *)
(* the queries, the aggregation and the pruning of those tables with the   *)
(* commands that call them, config resolution (internal/config), and two   *)
(* start commands running at the same time.  Each part has its own         *)
(* specification; the variables of the other parts stay at rest in it.     *)
(***************************************************************************)
EXTENDS Integers, Sequences, FiniteSets, TLC

(***************************************************************************)
(* Bounds of the model.                                                    *)
(***************************************************************************)
MaxSpawn == 2
MaxClock == 2
MaxTamper == 1

(***************************************************************************)
(* Program constants.                                                      *)
(***************************************************************************)
StopTimeout == 10
StatusOK == 200

\* Two invocations of the command-line tool may be alive at once.  A file
\* is reachable from the two directory entries and from each open descriptor.
Procs == {1, 2}
Inodes == 1..(Cardinality(Procs) + 2)

containerName == "lotel-collector"
defaultImage == "otel/opentelemetry-collector-contrib:latest"
ConfigPathArg == "/home/u/.lotel/collector-config.yaml"
DataPathArg == "/home/u/.lotel/data"

\* stateFilePath() and the temp file next to it (collector.go:45-55, 86)
StatePath == "state"

TmpPath_InPlace == StatePath

TmpPath == "tmp"

ErrNil == "nil"
ErrParse == "parsing state file"
ErrWrite == "writing state file"
ErrRename == "rename"
ErrNoDocker == "docker not found in PATH"
ErrMkdir == "creating data directory"
ErrRun == "starting collector container"
ErrPersist == "persisting state"
ErrStop == "stopping collector container"
ErrRm == "removing collector container"

MsgNone == ""
MsgAlready == "Collector is already running"
MsgStarted == "Collector started"
MsgNotRunning == "No collector is running."
MsgStopped == "Collector stopped."

VARIABLES
  dir,          \* directory of ~/.lotel: path -> inode (0 = no such file)
  inodeData,    \* inode -> file content, a sequence of JSON tokens
  fd,           \* process -> inode it holds open (0 = none)
  dockerInPath, \* whether exec.LookPath("docker") succeeds
  container,    \* the container named lotel-collector: [id, st]
  spawned,      \* number of containers created so far (next id - 1)
  now,          \* wall clock
  pc,           \* process -> position in its operation
  op,           \* process -> operation it runs
  loc,          \* process -> local variables of the operation
  res,          \* process -> what the operation returned
  snap,         \* process -> observations made when the operation began
  lastWritten,  \* record most recently committed to the store (or NilState)
  dirty,        \* process -> the store changed since it began reading
  tampered,     \* number of external corruptions of the state file
  alive,        \* the liveness check: its input, the process table, its answer
  wh,           \* WaitHealthy: its position, clock, deadline, context, result
  files,        \* signal -> the JSONL file of that signal (or NoFile)
  tables,       \* signal -> the committed rows of that table
  ig,           \* IngestAll: its position, open transaction, result
  qp,           \* a query or prune command: its flags, position, result
  cf            \* config resolution: the files it looks at, its result

fsVars == <<dir, inodeData, fd>>
dockerVars == <<dockerInPath, container, spawned>>
procVars == <<pc, op, loc, res, snap>>
ghostVars == <<lastWritten, dirty, tampered>>
supVars == <<dir, inodeData, fd, dockerInPath, container, spawned, now,
             pc, op, loc, res, snap, lastWritten, dirty, tampered>>
extVars == <<alive, wh, files, tables, ig, qp, cf>>
vars == <<dir, inodeData, fd, dockerInPath, container, spawned, now,
          pc, op, loc, res, snap, lastWritten, dirty, tampered,
          alive, wh, files, tables, ig, qp, cf>>

\* The parts of the program a specification does not exercise stay at rest.
AtRest == "at rest"
AliveAtRest == alive = AtRest
HealthAtRest == wh = AtRest
IngestAtRest == files = AtRest /\ tables = AtRest /\ ig = AtRest
QueryAtRest == qp = AtRest
ConfigAtRest == cf = AtRest
ExtAtRest ==
  AliveAtRest /\ HealthAtRest /\ IngestAtRest /\ QueryAtRest /\ ConfigAtRest

(***************************************************************************)
(* type State struct (collector.go:17-24).  NilState is the nil *State.    *)
(* The zero State is what json.Unmarshal leaves for absent keys.           *)
(***************************************************************************)
NilState == [nil |-> TRUE]

ZeroState ==
  [ContainerID |-> 0, ContainerName |-> "", Image |-> "", StartedAt |-> 0,
   ConfigPath |-> "", DataPath |-> ""]

StateKeys ==
  <<"container_id", "container_name", "image", "started_at", "config_path",
    "data_path">>

FieldOf(key) ==
  CASE key = "container_id" -> "ContainerID"
    [] key = "container_name" -> "ContainerName"
    [] key = "image" -> "Image"
    [] key = "started_at" -> "StartedAt"
    [] key = "config_path" -> "ConfigPath"
    [] key = "data_path" -> "DataPath"
    [] OTHER -> ""

NewState(cid, t) ==
  [ContainerID |-> cid, ContainerName |-> containerName, Image |-> defaultImage,
   StartedAt |-> t, ConfigPath |-> ConfigPathArg, DataPath |-> DataPathArg]

(***************************************************************************)
(* json.Marshal(s): "{", one member per struct field in declaration order, *)
(* "}".  A member is the pair <<key, value>>.                              *)
(***************************************************************************)
TokOpen == <<"{">>
TokClose == <<"}">>
TokNul == <<"NUL">>

Marshal_DropsID(s) ==
  <<TokOpen>> \o [i \in 1..(Len(StateKeys) - 1) |->
                    <<StateKeys[i + 1], s[FieldOf(StateKeys[i + 1])]>>] \o <<TokClose>>

Marshal(s) ==
  <<TokOpen>> \o [i \in 1..Len(StateKeys) |->
                    <<StateKeys[i], s[FieldOf(StateKeys[i])]>>] \o <<TokClose>>

IsMember(tok) == Len(tok) = 2

\* encoding/json checks the whole input for validity before decoding.
ValidJSON(data) ==
  /\ Len(data) >= 2
  /\ data[1] = TokOpen
  /\ data[Len(data)] = TokClose
  /\ \A i \in 2..(Len(data) - 1) : IsMember(data[i])

\* Decoding an object into the struct: the last member with a known key
\* sets the field, unknown keys are ignored, absent keys stay zero.
RECURSIVE Decode(_, _, _)
Decode(data, i, acc) ==
  IF i > Len(data) - 1 THEN acc
  ELSE LET key == data[i][1]
           f == FieldOf(key)
       IN Decode(data, i + 1, IF f = "" THEN acc ELSE [acc EXCEPT ![f] = data[i][2]])

Unmarshal(data) ==
  IF ValidJSON(data)
    THEN [err |-> ErrNil, st |-> Decode(data, 2, ZeroState)]
    ELSE [err |-> ErrParse, st |-> NilState]

(***************************************************************************)
(* File system primitives.                                                 *)
(***************************************************************************)
Max(a, b) == IF a >= b THEN a ELSE b

InUse(i) == (\E path \in DOMAIN dir : dir[path] = i) \/ (\E p \in Procs : fd[p] = i)

FreeInode == CHOOSE i \in Inodes : ~InUse(i) /\ \A j \in Inodes : ~InUse(j) => i <= j

\* write(2) of chunk at offset off of a file with the given content.
WriteAt(content, off, chunk) ==
  [i \in 1..Max(Len(content), off + Len(chunk)) |->
     IF i > off /\ i <= off + Len(chunk) THEN chunk[i - off]
     ELSE IF i <= Len(content) THEN content[i]
     ELSE TokNul]

FileContent(path) == inodeData[dir[path]]

\* The record a parse of the canonical file would give right now.
StoredState ==
  IF dir[StatePath] = 0 THEN NilState ELSE Unmarshal(FileContent(StatePath)).st

StateCorrupt == dir[StatePath] # 0 /\ ~ValidJSON(FileContent(StatePath))

LocInit ==
  [rec |-> NilState, data |-> <<>>, off |-> 0, ret |-> "done", err |-> ErrNil,
   st |-> NilState, sawRunning |-> FALSE, stopFailed |-> FALSE,
   term |-> FALSE, waited |-> 0, kill |-> "none"]

ResInit ==
  [err |-> ErrNil, msg |-> MsgNone, state |-> NilState,
   status |-> [Running |-> FALSE, Healthy |-> FALSE, ContainerID |-> 0]]

SnapInit ==
  [spawned |-> 0, stored |-> NilState, cid |-> 0, atOpen |-> NilState,
   hadRecord |-> FALSE, corrupt |-> FALSE]

\* Where an operation ends: its result is in res[p], its position is "done".
Finish(p, r) ==
  /\ pc' = [pc EXCEPT ![p] = "done"]
  /\ res' = [res EXCEPT ![p] = r]

Goto(p, label) == pc' = [pc EXCEPT ![p] = label]

(***************************************************************************)
(* Initial state: a fresh home directory, no container, nothing running.   *)
(***************************************************************************)
InitCommon ==
  /\ dir = [path \in {StatePath, "tmp"} |-> 0]
  /\ inodeData = [i \in Inodes |-> <<>>]
  /\ fd = [p \in Procs |-> 0]
  /\ container = [id |-> 0, st |-> "none"]
  /\ spawned = 0
  /\ now = 1
  /\ pc = [p \in Procs |-> "idle"]
  /\ op = [p \in Procs |-> "none"]
  /\ loc = [p \in Procs |-> LocInit]
  /\ res = [p \in Procs |-> ResInit]
  /\ snap = [p \in Procs |-> SnapInit]
  /\ lastWritten = NilState
  /\ dirty = [p \in Procs |-> FALSE]
  /\ tampered = 0

\* An inode nobody refers to any more is gone: its content is dropped.
Reclaim(newDir, newFd, data) ==
  [i \in Inodes |->
     IF (\E path \in DOMAIN newDir : newDir[path] = i) \/ (\E p \in Procs : newFd[p] = i)
       THEN data[i] ELSE <<>>]

\* rename(2): renaming a file onto itself changes nothing.
Rename(from, to) ==
  IF from = to THEN dir ELSE [dir EXCEPT ![to] = dir[from], ![from] = 0]

\* Every read that is under way (or whose result is still held) is overlapped.
AllDirty == [p \in Procs |-> dirty[p] \/ op[p] = "readState"]

\* writeState returns: its locals are gone, its error stays.
WriteReturn(l, e) == [l EXCEPT !.err = e, !.rec = NilState, !.data = <<>>, !.off = 0]

(***************************************************************************)
(* readState (collector.go:57-74).  os.ReadFile opens the canonical path   *)
(* and then reads the inode it opened.                                     *)
(***************************************************************************)
ReadOpen(p) ==
  /\ pc[p] = "rs_open"
  /\ snap' = [snap EXCEPT ![p].atOpen = lastWritten]
  /\ IF dir[StatePath] = 0
       THEN /\ loc' = [loc EXCEPT ![p].err = ErrNil, ![p].st = NilState]
            /\ Goto(p, loc[p].ret)
            /\ UNCHANGED fd
       ELSE /\ fd' = [fd EXCEPT ![p] = dir[StatePath]]
            /\ Goto(p, "rs_read")
            /\ UNCHANGED loc
  /\ UNCHANGED <<dir, inodeData, dockerVars, now, op, res, ghostVars,
                 extVars>>

ReadData(p) ==
  /\ pc[p] = "rs_read"
  /\ LET r == Unmarshal(inodeData[fd[p]])
     IN loc' = [loc EXCEPT ![p].err = r.err, ![p].st = r.st]
  /\ fd' = [fd EXCEPT ![p] = 0]
  /\ inodeData' = Reclaim(dir, fd', inodeData)
  /\ Goto(p, loc[p].ret)
  /\ UNCHANGED <<dir, dockerVars, now, op, res, snap, ghostVars,
                 extVars>>

(***************************************************************************)
(* removeState (collector.go:93-102): os.Remove; ErrNotExist is no error.  *)
(* removeState is the effect on the file system, used by every caller.     *)
(***************************************************************************)
removeState ==
  /\ dir' = [dir EXCEPT ![StatePath] = 0]
  /\ inodeData' = Reclaim(dir', fd, inodeData)
  /\ lastWritten' = NilState
  /\ dirty' = IF dir[StatePath] = 0 THEN dirty ELSE AllDirty

(***************************************************************************)
(* writeState (collector.go:76-91): json.Marshal, os.WriteFile(tmp) as     *)
(* open(O_CREATE|O_TRUNC) + write + close, then os.Rename(tmp, path).      *)
(***************************************************************************)
WriteOpen(p) ==
  /\ pc[p] = "ws_open"
  /\ \/ \* OpenFile fails: nothing is touched
        /\ loc' = [loc EXCEPT ![p] = WriteReturn(@, ErrWrite)]
        /\ Goto(p, loc[p].ret)
        /\ UNCHANGED <<dir, inodeData, fd>>
     \/ \* the temp file exists: it is truncated in place
        /\ dir[TmpPath] # 0
        /\ fd' = [fd EXCEPT ![p] = dir[TmpPath]]
        /\ inodeData' = [inodeData EXCEPT ![dir[TmpPath]] = <<>>]
        /\ loc' = [loc EXCEPT ![p].off = 0]
        /\ Goto(p, "ws_write")
        /\ UNCHANGED dir
     \/ \* the temp file is created
        /\ dir[TmpPath] = 0
        /\ dir' = [dir EXCEPT ![TmpPath] = FreeInode]
        /\ fd' = [fd EXCEPT ![p] = FreeInode]
        /\ loc' = [loc EXCEPT ![p].off = 0]
        /\ Goto(p, "ws_write")
        /\ UNCHANGED inodeData
  /\ UNCHANGED <<dockerVars, now, op, res, snap, ghostVars,
                 extVars>>

WriteData(p) ==
  /\ pc[p] = "ws_write"
  /\ LET data == loc[p].data
         off == loc[p].off
         rest == Len(data) - off
     IN \/ \* a write(2) stores the next chunk at the descriptor's offset
           /\ rest > 0
           /\ \E n \in {rest} \cup (IF off = 0 THEN {(rest + 1) \div 2} ELSE {}) :
                /\ inodeData' = [inodeData EXCEPT ![fd[p]] =
                                   WriteAt(@, off, SubSeq(data, off + 1, off + n))]
                /\ loc' = [loc EXCEPT ![p].off = off + n]
           /\ UNCHANGED <<fd, pc>>
        \/ \* the write fails (disk full): the file is closed as it is
           /\ rest > 0
           /\ loc' = [loc EXCEPT ![p] = WriteReturn(@, ErrWrite)]
           /\ fd' = [fd EXCEPT ![p] = 0]
           /\ inodeData' = Reclaim(dir, fd', inodeData)
           /\ Goto(p, loc[p].ret)
        \/ \* everything is written: close
           /\ rest = 0
           /\ fd' = [fd EXCEPT ![p] = 0]
           /\ inodeData' = Reclaim(dir, fd', inodeData)
           /\ Goto(p, "ws_rename")
           /\ UNCHANGED loc
  /\ UNCHANGED <<dir, dockerVars, now, op, res, snap, ghostVars,
                 extVars>>

WriteRename(p) ==
  /\ pc[p] = "ws_rename"
  /\ \/ \* rename fails (the temp file is gone, or an I/O error)
        /\ loc' = [loc EXCEPT ![p] = WriteReturn(@, ErrRename)]
        /\ UNCHANGED <<dir, inodeData, lastWritten, dirty>>
     \/ /\ dir[TmpPath] # 0
        /\ dir' = Rename(TmpPath, StatePath)
        /\ inodeData' = Reclaim(dir', fd, inodeData)
        /\ loc' = [loc EXCEPT ![p] = WriteReturn(@, ErrNil)]
        /\ lastWritten' = loc[p].rec
        /\ dirty' = AllDirty
  /\ Goto(p, loc[p].ret)
  /\ UNCHANGED <<fd, dockerVars, now, op, res, snap, tampered,
                 extVars>>

(***************************************************************************)
(* The state store driven directly, as TestStateRoundtrip drives it:       *)
(* writeState(r), removeState() and readState() in any order.  One         *)
(* process mutates at a time; reads overlap freely; a process may crash    *)
(* at any step.                                                            *)
(***************************************************************************)
StoreRecords == {NewState(1, 1), NewState(2, 2), ZeroState}

Mutating(q) == pc[q] \notin {"idle", "done"} /\ op[q] \in {"writeState", "removeState"}

StoreWrite(p) ==
  /\ pc[p] = "idle"
  /\ \A q \in Procs : ~Mutating(q)
  /\ \E r \in StoreRecords :
       loc' = [loc EXCEPT ![p] = [LocInit EXCEPT !.rec = r, !.data = Marshal(r),
                                                  !.ret = "StoreWriteRet"]]
  /\ op' = [op EXCEPT ![p] = "writeState"]
  /\ Goto(p, "ws_open")
  /\ UNCHANGED <<fsVars, dockerVars, now, res, snap, ghostVars,
                 extVars>>

StoreWriteRet(p) ==
  /\ pc[p] = "StoreWriteRet"
  /\ Finish(p, [ResInit EXCEPT !.err = loc[p].err])
  /\ UNCHANGED <<fsVars, dockerVars, now, op, loc, snap, ghostVars,
                 extVars>>

StoreRemove(p) ==
  /\ pc[p] = "idle"
  /\ \A q \in Procs : ~Mutating(q)
  /\ op' = [op EXCEPT ![p] = "removeState"]
  /\ removeState
  /\ Finish(p, [ResInit EXCEPT !.err = ErrNil])
  /\ UNCHANGED <<fd, dockerVars, now, loc, snap, tampered,
                 extVars>>

StoreRead(p) ==
  /\ pc[p] = "idle"
  /\ op' = [op EXCEPT ![p] = "readState"]
  /\ loc' = [loc EXCEPT ![p] = [LocInit EXCEPT !.ret = "StoreReadRet"]]
  /\ dirty' = [dirty EXCEPT ![p] = FALSE]
  /\ Goto(p, "rs_open")
  /\ UNCHANGED <<fsVars, dockerVars, now, res, snap, lastWritten, tampered,
                 extVars>>

StoreReadRet(p) ==
  /\ pc[p] = "StoreReadRet"
  /\ Finish(p, [ResInit EXCEPT !.err = loc[p].err, !.state = loc[p].st])
  /\ UNCHANGED <<fsVars, dockerVars, now, op, loc, snap, ghostVars,
                 extVars>>

\* The caller has its result; the process is free for the next operation.
Return(p) ==
  /\ pc[p] = "done"
  /\ pc' = [pc EXCEPT ![p] = "idle"]
  /\ op' = [op EXCEPT ![p] = "none"]
  /\ loc' = [loc EXCEPT ![p] = LocInit]
  /\ res' = [res EXCEPT ![p] = ResInit]
  /\ snap' = [snap EXCEPT ![p] = SnapInit]
  /\ dirty' = [dirty EXCEPT ![p] = FALSE]
  /\ UNCHANGED <<fsVars, dockerVars, now, lastWritten, tampered,
                 extVars>>

\* The process dies in the middle of an operation; its descriptor closes.
Crash(p) ==
  /\ pc[p] \notin {"idle", "done"}
  /\ pc' = [pc EXCEPT ![p] = "idle"]
  /\ op' = [op EXCEPT ![p] = "none"]
  /\ loc' = [loc EXCEPT ![p] = LocInit]
  /\ snap' = [snap EXCEPT ![p] = SnapInit]
  /\ fd' = [fd EXCEPT ![p] = 0]
  /\ inodeData' = Reclaim(dir, fd', inodeData)
  /\ dirty' = [dirty EXCEPT ![p] = FALSE]
  /\ UNCHANGED <<dir, dockerVars, now, res, lastWritten, tampered,
                 extVars>>

StoreNext ==
  \E p \in Procs :
    \/ StoreWrite(p)
    \/ StoreRemove(p)
    \/ StoreRead(p)
    \/ ReadOpen(p)
    \/ ReadData(p)
    \/ WriteOpen(p)
    \/ WriteData(p)
    \/ WriteRename(p)
    \/ StoreWriteRet(p)
    \/ StoreReadRet(p)
    \/ Return(p)
    \/ Crash(p)

StoreInit == InitCommon /\ dockerInPath = TRUE /\ ExtAtRest

StoreSpec == StoreInit /\ [][StoreNext]_vars

(***************************************************************************)
(* The docker command line, as the supervisor uses it.  Every command      *)
(* fails when the docker binary is not on PATH.                            *)
(***************************************************************************)
NoContainer == [id |-> 0, st |-> "none"]

\* docker inspect -f {{.State.Running}} lotel-collector (collector.go:114-120)
isContainerRunning == dockerInPath /\ container.st = "running"

\* docker inspect lotel-collector (collector.go:123-126)
containerExists == dockerInPath /\ container.st # "none"

\* exec.LookPath("docker") (collector.go:105-111)
findDocker == IF dockerInPath THEN ErrNil ELSE ErrNoDocker

\* docker rm -f lotel-collector: kills and removes; its error is ignored.
DockerRmForce ==
  container' = IF dockerInPath /\ container.st # "none" THEN NoContainer ELSE container

\* The command-line tool runs one command per invocation; the supervisor
\* operations below are invoked one after the other.
AllIdle == \A q \in Procs : pc[q] = "idle"

Observe(p) ==
  [SnapInit EXCEPT !.spawned = spawned, !.stored = StoredState,
                   !.cid = container.id, !.hadRecord = (dir[StatePath] # 0),
                   !.corrupt = StateCorrupt]

Invoke(p, name, first, ret) ==
  /\ pc[p] = "idle"
  /\ AllIdle
  /\ op' = [op EXCEPT ![p] = name]
  /\ loc' = [loc EXCEPT ![p] = [LocInit EXCEPT !.ret = ret]]
  /\ snap' = [snap EXCEPT ![p] = Observe(p)]
  /\ Goto(p, first)
  /\ UNCHANGED <<fsVars, dockerVars, now, res, ghostVars,
                 extVars>>

(***************************************************************************)
(* Start (collector.go:129-204)                                            *)
(***************************************************************************)
Start(p) ==
  /\ spawned < MaxSpawn
  /\ Invoke(p, "Start", "StartIsRunning", "StartAfterWrite")

StartIsRunning_NoCheck(p) ==
  /\ pc[p] = "StartIsRunning"
  /\ loc' = [loc EXCEPT ![p].sawRunning = isContainerRunning]
  /\ Goto(p, "StartExists")
  /\ UNCHANGED <<fsVars, dockerVars, now, op, res, snap, ghostVars,
                 extVars>>

\* collector.go:131-134
StartIsRunning(p) ==
  /\ pc[p] = "StartIsRunning"
  /\ IF isContainerRunning
       THEN /\ loc' = [loc EXCEPT ![p].sawRunning = TRUE]
            /\ Finish(p, [ResInit EXCEPT !.msg = MsgAlready])
       ELSE /\ Goto(p, "StartExists")
            /\ UNCHANGED <<loc, res>>
  /\ UNCHANGED <<fsVars, dockerVars, now, op, snap, ghostVars,
                 extVars>>

\* collector.go:137
StartExists(p) ==
  /\ pc[p] = "StartExists"
  /\ Goto(p, IF containerExists THEN "StartRmStale" ELSE "StartRemoveState")
  /\ UNCHANGED <<fsVars, dockerVars, now, op, loc, res, snap, ghostVars,
                 extVars>>

\* collector.go:138
StartRmStale(p) ==
  /\ pc[p] = "StartRmStale"
  /\ DockerRmForce
  /\ loc' = [loc EXCEPT ![p].kill = IF isContainerRunning THEN "force" ELSE @]
  /\ Goto(p, "StartRemoveState")
  /\ UNCHANGED <<fsVars, dockerInPath, spawned, now, op, res, snap, ghostVars,
                 extVars>>

StartRemoveState_Skip(p) ==
  /\ pc[p] = "StartRemoveState"
  /\ Goto(p, "StartFindDocker")
  /\ UNCHANGED <<fsVars, dockerVars, now, op, loc, res, snap, ghostVars,
                 extVars>>

\* collector.go:142
StartRemoveState(p) ==
  /\ pc[p] = "StartRemoveState"
  /\ removeState
  /\ Goto(p, "StartFindDocker")
  /\ UNCHANGED <<fd, dockerVars, now, op, loc, res, snap, tampered,
                 extVars>>

\* collector.go:144-147, findDocker at 105-111
StartFindDocker(p) ==
  /\ pc[p] = "StartFindDocker"
  /\ IF findDocker = ErrNil
       THEN Goto(p, "StartMkdir") /\ UNCHANGED res
       ELSE Finish(p, [ResInit EXCEPT !.err = findDocker])
  /\ UNCHANGED <<fsVars, dockerVars, now, op, loc, snap, ghostVars,
                 extVars>>

\* collector.go:150-164: MkdirAll of the data directories, filepath.Abs
StartMkdir(p) ==
  /\ pc[p] = "StartMkdir"
  /\ \/ Goto(p, "StartRun") /\ UNCHANGED res
     \/ Finish(p, [ResInit EXCEPT !.err = ErrMkdir])
  /\ UNCHANGED <<fsVars, dockerVars, now, op, loc, snap, ghostVars,
                 extVars>>

\* collector.go:167-190: docker run -d --name lotel-collector ...; on
\* success the new State is built and writeState is entered.
StartRun(p) ==
  /\ pc[p] = "StartRun"
  /\ \/ \* the container runs; docker prints its id
        /\ container.st = "none"
        /\ spawned' = spawned + 1
        /\ container' = [id |-> spawned + 1, st |-> "running"]
        /\ loc' = [loc EXCEPT ![p].rec = NewState(spawned + 1, now),
                              ![p].data = Marshal(NewState(spawned + 1, now))]
        /\ Goto(p, "ws_open")
        /\ UNCHANGED res
     \/ \* docker run fails before anything is created, or on a name conflict
        /\ Finish(p, [ResInit EXCEPT !.err = ErrRun])
        /\ UNCHANGED <<container, spawned, loc>>
     \/ \* docker run creates the container but cannot start it (port in use)
        /\ container.st = "none"
        /\ spawned' = spawned + 1
        /\ container' = [id |-> spawned + 1, st |-> "created"]
        /\ Finish(p, [ResInit EXCEPT !.err = ErrRun])
        /\ UNCHANGED loc
  /\ UNCHANGED <<fsVars, dockerInPath, now, op, snap, ghostVars,
                 extVars>>

StartAfterWrite_NoKill(p) ==
  /\ pc[p] = "StartAfterWrite"
  /\ Finish(p, IF loc[p].err # ErrNil THEN [ResInit EXCEPT !.err = ErrPersist]
                                      ELSE [ResInit EXCEPT !.msg = MsgStarted])
  /\ UNCHANGED <<fsVars, dockerVars, now, op, loc, snap, ghostVars,
                 extVars>>

\* collector.go:191-203
StartAfterWrite(p) ==
  /\ pc[p] = "StartAfterWrite"
  /\ IF loc[p].err # ErrNil
       THEN /\ DockerRmForce
            /\ Finish(p, [ResInit EXCEPT !.err = ErrPersist])
       ELSE /\ Finish(p, [ResInit EXCEPT !.msg = MsgStarted])
            /\ UNCHANGED container
  /\ UNCHANGED <<fsVars, dockerInPath, spawned, now, op, loc, snap, ghostVars,
                 extVars>>

(***************************************************************************)
(* Stop (collector.go:207-231)                                             *)
(***************************************************************************)
Stop(p) == Invoke(p, "Stop", "StopIsRunning", "done")

\* collector.go:208, first operand
StopIsRunning(p) ==
  /\ pc[p] = "StopIsRunning"
  /\ IF isContainerRunning
       THEN /\ loc' = [loc EXCEPT ![p].sawRunning = TRUE]
            /\ Goto(p, "StopDockerStop")
       ELSE /\ Goto(p, "StopExists")
            /\ UNCHANGED loc
  /\ UNCHANGED <<fsVars, dockerVars, now, op, res, snap, ghostVars,
                 extVars>>

\* collector.go:208, second operand
StopExists(p) ==
  /\ pc[p] = "StopExists"
  /\ Goto(p, IF containerExists THEN "StopDockerStop" ELSE "StopNotRunning")
  /\ UNCHANGED <<fsVars, dockerVars, now, op, loc, res, snap, ghostVars,
                 extVars>>

\* collector.go:209-211
StopNotRunning(p) ==
  /\ pc[p] = "StopNotRunning"
  /\ removeState
  /\ Finish(p, [ResInit EXCEPT !.msg = MsgNotRunning])
  /\ UNCHANGED <<fd, dockerVars, now, op, loc, snap, tampered,
                 extVars>>

\* collector.go:216: docker stop lotel-collector.  The request may fail;
\* otherwise the daemon sends SIGTERM to a running container and waits.
StopDockerStop(p) ==
  /\ pc[p] = "StopDockerStop"
  /\ \/ /\ loc' = [loc EXCEPT ![p].stopFailed = TRUE]
        /\ Goto(p, "StopForceRm")
     \/ /\ isContainerRunning
        /\ loc' = [loc EXCEPT ![p].term = TRUE]
        /\ Goto(p, "StopGrace")
     \/ /\ containerExists /\ ~isContainerRunning
        /\ Goto(p, "StopRm")
        /\ UNCHANGED loc
  /\ UNCHANGED <<fsVars, dockerVars, now, op, res, snap, ghostVars,
                 extVars>>

\* docker stop, waiting: a second of the grace period passes.
StopGraceTick(p) ==
  /\ pc[p] = "StopGrace"
  /\ container.st = "running"
  /\ loc[p].waited < StopTimeout
  /\ loc' = [loc EXCEPT ![p].waited = @ + 1]
  /\ UNCHANGED <<fsVars, dockerVars, now, pc, op, res, snap, ghostVars,
                 extVars>>

\* docker stop, waiting: the container has exited; docker stop returns.
StopGraceExited(p) ==
  /\ pc[p] = "StopGrace"
  /\ container.st # "running"
  /\ Goto(p, "StopRm")
  /\ UNCHANGED <<fsVars, dockerVars, now, op, loc, res, snap, ghostVars,
                 extVars>>

StopGraceKill_NoWait(p) ==
  /\ pc[p] = "StopGrace"
  /\ container.st = "running"
  /\ container' = [container EXCEPT !.st = "exited"]
  /\ loc' = [loc EXCEPT ![p].kill = "timeout"]
  /\ Goto(p, "StopRm")
  /\ UNCHANGED <<fsVars, dockerInPath, spawned, now, op, res, snap, ghostVars,
                 extVars>>

\* docker stop, grace period over: the daemon sends SIGKILL.
StopGraceKill(p) ==
  /\ pc[p] = "StopGrace"
  /\ container.st = "running"
  /\ loc[p].waited = StopTimeout
  /\ container' = [container EXCEPT !.st = "exited"]
  /\ loc' = [loc EXCEPT ![p].kill = "timeout"]
  /\ Goto(p, "StopRm")
  /\ UNCHANGED <<fsVars, dockerInPath, spawned, now, op, res, snap, ghostVars,
                 extVars>>

\* collector.go:217-218: docker stop failed, docker rm -f
StopForceRm(p) ==
  /\ pc[p] = "StopForceRm"
  /\ DockerRmForce
  /\ loc' = [loc EXCEPT ![p].kill = IF isContainerRunning THEN "force" ELSE @]
  /\ Goto(p, "StopFailed")
  /\ UNCHANGED <<fsVars, dockerInPath, spawned, now, op, res, snap, ghostVars,
                 extVars>>

StopFailed_KeepRecord(p) ==
  /\ pc[p] = "StopFailed"
  /\ Finish(p, [ResInit EXCEPT !.err = ErrStop])
  /\ UNCHANGED <<fsVars, dockerVars, now, op, loc, snap, ghostVars,
                 extVars>>

\* collector.go:219-220
StopFailed(p) ==
  /\ pc[p] = "StopFailed"
  /\ removeState
  /\ Finish(p, [ResInit EXCEPT !.err = ErrStop])
  /\ UNCHANGED <<fd, dockerVars, now, op, loc, snap, tampered,
                 extVars>>

\* collector.go:223: docker rm lotel-collector removes a stopped container
StopRm(p) ==
  /\ pc[p] = "StopRm"
  /\ \/ /\ loc' = [loc EXCEPT ![p].err = ErrRm]
        /\ UNCHANGED container
     \/ /\ containerExists /\ ~isContainerRunning
        /\ container' = NoContainer
        /\ UNCHANGED loc
  /\ Goto(p, "StopRemoveState")
  /\ UNCHANGED <<fsVars, dockerInPath, spawned, now, op, res, snap, ghostVars,
                 extVars>>

StopRemoveState_LeakOnError(p) ==
  /\ pc[p] = "StopRemoveState"
  /\ IF loc[p].err = ErrRm
       THEN /\ Finish(p, [ResInit EXCEPT !.err = ErrRm])
            /\ UNCHANGED <<dir, inodeData, lastWritten, dirty>>
       ELSE /\ removeState
            /\ Finish(p, [ResInit EXCEPT !.msg = MsgStopped])
  /\ UNCHANGED <<fd, dockerVars, now, op, loc, snap, tampered,
                 extVars>>

\* collector.go:224-225 and 228-230
StopRemoveState(p) ==
  /\ pc[p] = "StopRemoveState"
  /\ removeState
  /\ Finish(p, IF loc[p].err = ErrRm THEN [ResInit EXCEPT !.err = ErrRm]
                                     ELSE [ResInit EXCEPT !.msg = MsgStopped])
  /\ UNCHANGED <<fd, dockerVars, now, op, loc, snap, tampered,
                 extVars>>

(***************************************************************************)
(* GetStatus (collector.go:234-258) and checkHealth (261-269)              *)
(***************************************************************************)
\* What the GET to http://localhost:13133/ gives: 0 is a transport error,
\* otherwise the status code of the response.
HealthResponses == {0, StatusOK, 204, 503}

checkHealth(code) == code # 0 /\ code = StatusOK

GetStatus(p) == Invoke(p, "GetStatus", "rs_open", "StatusAfterRead")

StatusAfterRead_ProbeAnyway(p) ==
  /\ pc[p] = "StatusAfterRead"
  /\ IF loc[p].err # ErrNil
       THEN /\ Finish(p, [ResInit EXCEPT !.err = loc[p].err])
            /\ UNCHANGED loc
       ELSE /\ loc' = [loc EXCEPT ![p].sawRunning = isContainerRunning]
            /\ Goto(p, "StatusHealth")
            /\ UNCHANGED res
  /\ UNCHANGED <<fsVars, dockerVars, now, op, snap, ghostVars,
                 extVars>>

\* collector.go:235-241 and 246
StatusAfterRead(p) ==
  /\ pc[p] = "StatusAfterRead"
  /\ IF loc[p].err # ErrNil
       THEN /\ Finish(p, [ResInit EXCEPT !.err = loc[p].err])
            /\ UNCHANGED loc
       ELSE IF ~isContainerRunning
         THEN /\ Goto(p, "StatusRemove")
              /\ UNCHANGED <<loc, res>>
         ELSE /\ loc' = [loc EXCEPT ![p].sawRunning = TRUE]
              /\ Goto(p, "StatusHealth")
              /\ UNCHANGED res
  /\ UNCHANGED <<fsVars, dockerVars, now, op, snap, ghostVars,
                 extVars>>

StatusRemove_Skip(p) ==
  /\ pc[p] = "StatusRemove"
  /\ Finish(p, ResInit)
  /\ UNCHANGED <<fsVars, dockerVars, now, op, loc, snap, ghostVars,
                 extVars>>

\* collector.go:242-243
StatusRemove(p) ==
  /\ pc[p] = "StatusRemove"
  /\ removeState
  /\ Finish(p, ResInit)
  /\ UNCHANGED <<fd, dockerVars, now, op, loc, snap, tampered,
                 extVars>>

\* collector.go:247-257
StatusHealth(p) ==
  /\ pc[p] = "StatusHealth"
  /\ \E code \in HealthResponses :
       Finish(p, [ResInit EXCEPT
                    !.status = [Running |-> TRUE,
                                ContainerID |-> IF loc[p].st = NilState THEN 0
                                                ELSE loc[p].st.ContainerID,
                                Healthy |-> checkHealth(code)]])
  /\ UNCHANGED <<fsVars, dockerVars, now, op, loc, snap, ghostVars,
                 extVars>>

(***************************************************************************)
(* The environment.                                                        *)
(***************************************************************************)
\* The collector process exits (a crash, or in answer to SIGTERM).
ContainerExit ==
  /\ container.st = "running"
  /\ container' = [container EXCEPT !.st = "exited"]
  /\ UNCHANGED <<fsVars, dockerInPath, spawned, now, procVars, ghostVars,
                 extVars>>

Tick ==
  /\ now < MaxClock
  /\ now' = now + 1
  /\ UNCHANGED <<fsVars, dockerVars, procVars, ghostVars,
                 extVars>>

\* docker is installed or removed while it holds no container.
ToggleDocker ==
  /\ AllIdle
  /\ container.st = "none"
  /\ dockerInPath' = ~dockerInPath
  /\ UNCHANGED <<fsVars, container, spawned, now, procVars, ghostVars,
                 extVars>>

\* The state file is damaged from outside: truncated to nothing or cut short.
Tamper ==
  /\ tampered < MaxTamper
  /\ dir[StatePath] # 0
  /\ \E n \in {0, Len(FileContent(StatePath)) - 1} :
       inodeData' = [inodeData EXCEPT ![dir[StatePath]] = SubSeq(@, 1, n)]
  /\ tampered' = tampered + 1
  /\ UNCHANGED <<dir, fd, dockerVars, now, procVars, lastWritten, dirty,
                 extVars>>

Next ==
  \/ \E p \in Procs :
       \/ Start(p)
       \/ StartIsRunning(p)
       \/ StartExists(p)
       \/ StartRmStale(p)
       \/ StartRemoveState(p)
       \/ StartFindDocker(p)
       \/ StartMkdir(p)
       \/ StartRun(p)
       \/ WriteOpen(p)
       \/ WriteData(p)
       \/ WriteRename(p)
       \/ StartAfterWrite(p)
       \/ Stop(p)
       \/ StopIsRunning(p)
       \/ StopExists(p)
       \/ StopNotRunning(p)
       \/ StopDockerStop(p)
       \/ StopGraceTick(p)
       \/ StopGraceExited(p)
       \/ StopGraceKill(p)
       \/ StopForceRm(p)
       \/ StopFailed(p)
       \/ StopRm(p)
       \/ StopRemoveState(p)
       \/ GetStatus(p)
       \/ ReadOpen(p)
       \/ ReadData(p)
       \/ StatusAfterRead(p)
       \/ StatusRemove(p)
       \/ StatusHealth(p)
       \/ Return(p)
  \/ ContainerExit
  \/ Tick
  \/ ToggleDocker

Init == InitCommon /\ dockerInPath = TRUE /\ ExtAtRest

Spec == Init /\ [][Next]_vars

TamperNext == Next \/ Tamper

TamperSpec == Init /\ [][TamperNext]_vars

(***************************************************************************)
(* Properties.                                                             *)
(***************************************************************************)
Done(p, name) == pc[p] = "done" /\ op[p] = name

Quiescent == \A p \in Procs : pc[p] \in {"idle", "done"}

ReportsRunning(p) ==
  \/ op[p] = "Start" /\ res[p].err = ErrNil
  \/ op[p] = "GetStatus" /\ res[p].err = ErrNil /\ res[p].status.Running

C2_StartIdempotent ==
  \A p \in Procs :
    (pc[p] # "idle" /\ op[p] = "Start" /\ loc[p].sawRunning) =>
      /\ pc[p] = "done"
      /\ res[p].err = ErrNil
      /\ res[p].msg = MsgAlready
      /\ spawned = snap[p].spawned
      /\ container.id = snap[p].cid
      /\ StoredState = snap[p].stored

C2_Witness ==
  \E p \in Procs :
    /\ Done(p, "Start")
    /\ loc[p].sawRunning
    /\ container.st = "running"
    /\ StoredState # NilState

\* C3: a readState that no writeState or removeState overlaps returns,
\* without error, exactly the record of the last writeState that succeeded,
\* or nil when none succeeded or a removeState came after it; removeState
\* never reports an error, whether or not there was a record.
C3_ReadReturnsLastWrite ==
  \A p \in Procs :
    /\ (Done(p, "readState") /\ ~dirty[p]) =>
         /\ res[p].err = ErrNil
         /\ res[p].state = lastWritten
    /\ Done(p, "removeState") => res[p].err = ErrNil

C3_Witness ==
  \E p \in Procs :
    /\ Done(p, "readState")
    /\ ~dirty[p]
    /\ res[p].state = NewState(2, 2)
    /\ dir["tmp"] # 0

\* C4: every readState, whatever writeState step or crash it interleaves
\* with, returns without error the complete record that was committed when
\* it opened the file, or nil if there was none: never a partial record and
\* never a parse error.
C4_ReadSeesWholeRecord ==
  \A p \in Procs :
    Done(p, "readState") =>
      /\ res[p].err = ErrNil
      /\ res[p].state \in StoreRecords \cup {NilState}
      /\ res[p].state = snap[p].atOpen

C4_Witness ==
  \E p \in Procs :
    /\ Done(p, "readState")
    /\ dirty[p]
    /\ res[p].state \in StoreRecords
    /\ lastWritten \in StoreRecords
    /\ lastWritten # res[p].state

\* C5: a GetStatus that read a record and then found the collector not
\* running returns running=false and healthy=false without error, and the
\* state file is gone when it returns.
C5_StaleRecordCleared ==
  \A p \in Procs :
    (Done(p, "GetStatus") /\ loc[p].err = ErrNil /\ loc[p].st # NilState
       /\ ~loc[p].sawRunning) =>
      /\ res[p].err = ErrNil
      /\ ~res[p].status.Running
      /\ ~res[p].status.Healthy
      /\ dir[StatePath] = 0

C5_Witness ==
  \E p \in Procs :
    /\ Done(p, "GetStatus")
    /\ loc[p].err = ErrNil
    /\ loc[p].st # NilState
    /\ ~loc[p].sawRunning
    /\ snap[p].hadRecord

\* C6: when Stop returns, on any of its return paths, there is no state file.
C6_StopClearsRecord ==
  \A p \in Procs : Done(p, "Stop") => dir[StatePath] = 0

C6_Witness ==
  \E p \in Procs :
    /\ Done(p, "Stop")
    /\ res[p].err = ErrRm
    /\ snap[p].hadRecord

\* C7: a Start that created the container and then failed in writeState
\* returns the "persisting state" error, and when it returns the container
\* is gone and there is no state file.
C7_PersistFailureKills ==
  \A p \in Procs :
    (Done(p, "Start") /\ spawned > snap[p].spawned /\ loc[p].err # ErrNil) =>
      /\ res[p].err = ErrPersist
      /\ container = NoContainer
      /\ dir[StatePath] = 0

C7_Witness ==
  \E p \in Procs :
    /\ Done(p, "Start")
    /\ spawned > snap[p].spawned
    /\ loc[p].err = ErrRename
    /\ dir["tmp"] # 0

C9_CorruptTreatedAsStale ==
  \A p \in Procs :
    (pc[p] = "done" /\ snap[p].corrupt) =>
      /\ res[p].err # ErrParse
      /\ (~loc[p].sawRunning => ~StateCorrupt)

MaxPid == 2

\* Identifiers a record may hold: 0 (the zero State) and the real ones.
Pids == 0..MaxPid

\* What runs under an identifier: nothing, the collector, something else.
ProcKinds == {"none", "otelcol", "other"}

\* The records the check is given: nil, and a State with each PID.
AliveRecords == {NilState} \cup {[PID |-> k] : k \in Pids}

\* kill(pid, 0): succeeds when the process exists.  Identifier 0 addresses
\* the caller's own process group, so the probe of 0 always succeeds.
SignalZero(pid) == pid = 0 \/ alive.table[pid] # "none"

\* strings.Contains(cmdline, "otelcol")
CmdlineHasOtelcol(pid) == pid # 0 /\ alive.table[pid] = "otelcol"

isProcessAlive_ProbeOnly(state) ==
  /\ state # NilState
  /\ state.PID > 0
  /\ SignalZero(state.PID)

isProcessAlive(state) ==
  /\ state # NilState
  /\ state.PID > 0
  /\ SignalZero(state.PID)
  /\ alive.cmdline => CmdlineHasOtelcol(state.PID)

AliveInit ==
  /\ \E tb \in [1..MaxPid -> ProcKinds], c \in BOOLEAN :
       alive = [pc |-> "idle", record |-> NilState, table |-> tb, cmdline |-> c,
                arg |-> NilState, running |-> FALSE]
  /\ InitCommon /\ dockerInPath = TRUE
  /\ HealthAtRest /\ IngestAtRest /\ QueryAtRest /\ ConfigAtRest

\* A record is on disk: written by an earlier start, or left by a crash.
AliveRecord ==
  /\ alive.pc = "idle"
  /\ \E r \in AliveRecords : alive' = [alive EXCEPT !.record = r]
  /\ UNCHANGED <<supVars, wh, files, tables, ig, qp, cf>>

\* A process exits, or a new one takes a free identifier (identifier reuse).
AliveProcChange ==
  /\ alive.pc = "idle"
  /\ \E k \in 1..MaxPid, kind \in ProcKinds :
       /\ (alive.table[k] = "none") # (kind = "none")
       /\ alive' = [alive EXCEPT !.table[k] = kind]
  /\ UNCHANGED <<supVars, wh, files, tables, ig, qp, cf>>

\* status(): running is computed from the liveness check; a record whose
\* process is not alive is cleared as a side effect.
AliveStatus ==
  /\ alive.pc = "idle"
  /\ alive' = [alive EXCEPT
                 !.pc = "done",
                 !.arg = alive.record,
                 !.running = isProcessAlive(alive.record),
                 !.record = IF isProcessAlive(alive.record) THEN @ ELSE NilState]
  /\ UNCHANGED <<supVars, wh, files, tables, ig, qp, cf>>

AliveReturn ==
  /\ alive.pc = "done"
  /\ alive' = [alive EXCEPT !.pc = "idle", !.arg = NilState, !.running = FALSE]
  /\ UNCHANGED <<supVars, wh, files, tables, ig, qp, cf>>

AliveNext == AliveRecord \/ AliveProcChange \/ AliveStatus \/ AliveReturn

AliveSpec == AliveInit /\ [][AliveNext]_vars

MaxTimeout == 3

PollInterval == 1
ClientTimeout == 4

ResNone == "none"
ResCtxErr == "context canceled"
ResTimeout == "collector did not become healthy"

WhInit ==
  [pc |-> "idle", now |-> 0, deadline |-> 0, ctxDone |-> FALSE,
   endpoint |-> 0, probes |-> 0, code |-> 0, healthy |-> FALSE,
   res |-> ResNone]

HealthInit ==
  /\ \E c \in HealthResponses : wh = [WhInit EXCEPT !.endpoint = c]
  /\ InitCommon /\ dockerInPath = TRUE
  /\ AliveAtRest /\ IngestAtRest /\ QueryAtRest /\ ConfigAtRest

\* collector.go:272-273: deadline := time.Now().Add(timeout)
WaitHealthy ==
  /\ wh.pc = "idle"
  /\ \E timeout \in 0..MaxTimeout :
       wh' = [wh EXCEPT !.pc = "loop", !.deadline = wh.now + timeout]
  /\ UNCHANGED <<supVars, alive, files, tables, ig, qp, cf>>

\* collector.go:274 and 284: for time.Now().Before(deadline) { ... }
WaitLoop ==
  /\ wh.pc = "loop"
  /\ wh' = IF wh.now < wh.deadline
             THEN [wh EXCEPT !.pc = "probe"]
             ELSE [wh EXCEPT !.pc = "done", !.res = ResTimeout]
  /\ UNCHANGED <<supVars, alive, files, tables, ig, qp, cf>>

WaitProbe_ReturnsAnyway ==
  /\ wh.pc = "probe"
  /\ \E d \in 0..ClientTimeout :
       LET code == IF d = ClientTimeout THEN 0 ELSE wh.endpoint
       IN wh' = [wh EXCEPT !.now = wh.now + d,
                           !.probes = 1,
                           !.code = code,
                           !.healthy = checkHealth(code),
                           !.pc = "done",
                           !.res = ErrNil]
  /\ UNCHANGED <<supVars, alive, files, tables, ig, qp, cf>>

\* collector.go:275-277: the probe takes up to the client's timeout; when
\* the timeout strikes, client.Get returns an error.
WaitProbe ==
  /\ wh.pc = "probe"
  /\ \E d \in 0..ClientTimeout :
       LET code == IF d = ClientTimeout THEN 0 ELSE wh.endpoint
       IN wh' = [wh EXCEPT !.now = wh.now + d,
                           !.probes = 1,
                           !.code = code,
                           !.healthy = checkHealth(code),
                           !.pc = IF checkHealth(code) THEN "done" ELSE "select",
                           !.res = IF checkHealth(code) THEN ErrNil ELSE ResNone]
  /\ UNCHANGED <<supVars, alive, files, tables, ig, qp, cf>>

\* collector.go:278-282: a context already cancelled wins at once (the
\* timer has only just been made); otherwise whichever comes first.
WaitSelect ==
  /\ wh.pc = "select"
  /\ \/ /\ wh.ctxDone
        /\ wh' = [wh EXCEPT !.pc = "done", !.res = ResCtxErr]
     \/ /\ ~wh.ctxDone
        /\ wh' = [wh EXCEPT !.now = wh.now + PollInterval, !.pc = "loop"]
     \/ /\ ~wh.ctxDone
        /\ wh' = [wh EXCEPT !.ctxDone = TRUE, !.pc = "done", !.res = ResCtxErr]
  /\ UNCHANGED <<supVars, alive, files, tables, ig, qp, cf>>

\* The caller has the result; the next call starts afresh.
WaitReturn ==
  /\ wh.pc = "done"
  /\ wh' = [WhInit EXCEPT !.endpoint = wh.endpoint]
  /\ UNCHANGED <<supVars, alive, files, tables, ig, qp, cf>>

\* The caller cancels the context (before the call or while it runs).
WaitCancel ==
  /\ wh.pc # "done"
  /\ ~wh.ctxDone
  /\ wh' = [wh EXCEPT !.ctxDone = TRUE]
  /\ UNCHANGED <<supVars, alive, files, tables, ig, qp, cf>>

\* The collector comes up, goes down, or answers with another status.
EndpointChange ==
  /\ wh.pc # "done"
  /\ \E c \in HealthResponses \ {wh.endpoint} : wh' = [wh EXCEPT !.endpoint = c]
  /\ UNCHANGED <<supVars, alive, files, tables, ig, qp, cf>>

WaitStep == WaitLoop \/ WaitProbe \/ WaitSelect

HealthNext ==
  \/ WaitHealthy
  \/ WaitLoop
  \/ WaitProbe
  \/ WaitSelect
  \/ WaitReturn
  \/ WaitCancel
  \/ EndpointChange

\* WaitHealthy runs in the calling goroutine: once called it keeps running.
HealthSpec == HealthInit /\ [][HealthNext]_vars /\ WF_vars(WaitStep)

\* C12: the health probe reports healthy if and only if the GET returned a
\* status in the 2xx range; any other status and any transport error give
\* healthy = false.
C12_HealthyIff2xx ==
  wh.probes > 0 => (wh.healthy <=> (wh.code >= 200 /\ wh.code <= 299))

\* C13 (as claimed): waitHealthy returns success only after a probe has
\* reported healthy, and when the context is cancelled before any probe has
\* succeeded it returns the cancellation reason.
C13_CancelWins ==
  wh.pc = "done" =>
      /\ wh.res = ErrNil => (wh.probes > 0 /\ wh.healthy)
      /\ wh.ctxDone => wh.res = ResCtxErr

\* C13 (as amended): success is returned only after a probe has reported
\* healthy; the cancellation reason is returned only for a cancelled
\* context and after a probe that failed, and it is what a failed probe
\* followed by a cancelled context returns; the timeout error is returned
\* only once the timeout has elapsed; and every call terminates.
C13_WaitHealthy ==
  /\ [](wh.pc = "done" =>
          /\ wh.res \in {ErrNil, ResCtxErr, ResTimeout}
          /\ wh.res = ErrNil => (wh.probes > 0 /\ wh.healthy)
          /\ wh.res = ResCtxErr => (wh.ctxDone /\ wh.probes > 0 /\ ~wh.healthy)
          /\ wh.res = ResTimeout => wh.now >= wh.deadline)
  /\ [][(wh.pc = "select" /\ wh.ctxDone /\ wh'.pc # "select")
          => wh'.res = ResCtxErr]_wh
  /\ (wh.pc = "loop") ~> (wh.pc = "done")

C13_Witness ==
  /\ wh.pc = "done"
  /\ wh.res = ErrNil
  /\ wh.ctxDone
  /\ wh.now > 0

(***************************************************************************)
(* The ingestion pipeline (internal/storage/ingest.go).  A signal file is  *)
(* a sequence of lines; a line is an OTLP-JSON batch of one resource with  *)
(* its records, or text json.Unmarshal rejects, or a line the scanner      *)
(* cannot deliver (longer than its 10 MB buffer, or a read error).  The    *)
(* database holds one table per signal; rows inserted through an open      *)
(* transaction become visible on commit only.                              *)
(***************************************************************************)
MaxLines == 3
MaxRuns == 2

\* One calendar day and the local zone's offset, in units of the model's
\* clock; the zero time.Time (January 1 of year 1, 00:00 UTC) lies a whole
\* number of days before the epoch.
DayLen == 2
LocalOffset == 1
ZeroInstant == 0 - (3 * DayLen)

Signals == <<"traces", "metrics", "logs">>
SignalSet == {Signals[i] : i \in 1..Len(Signals)}

\* A signal file that does not exist (os.Stat: IsNotExist).
NoFile == [exists |-> FALSE, lines |-> <<>>]
File(lines) == [exists |-> TRUE, lines |-> lines]

RECURSIVE Flatten(_)
Flatten(ss) == IF ss = <<>> THEN <<>> ELSE Head(ss) \o Flatten(Tail(ss))

(***************************************************************************)
(* OTLP values (ingest.go:247-304)                                         *)
(***************************************************************************)
\* otlpValue: which of the typed fields is set (none: a kind of value the
\* struct has no field for, such as arrayValue), and its content.
StrVal(s) == [set |-> "stringValue", s |-> s, b |-> FALSE]
BoolVal(b) == [set |-> "boolValue", s |-> "", b |-> b]
NoVal == [set |-> "none", s |-> "", b |-> FALSE]

\* func (v otlpValue) String() (ingest.go:261-278)
otlpValueString(v) ==
  IF v.set = "stringValue" THEN v.s
  ELSE IF v.set = "boolValue" THEN (IF v.b THEN "true" ELSE "false")
  ELSE ""

\* A timestamp as written in the file: a JSON number, a decimal string, a
\* string that is no number, or no field at all.
NanoNum(n) == [form |-> "number", v |-> n]
NanoStr(n) == [form |-> "string", v |-> n]
NanoJunk == [form |-> "junk", v |-> 0]
NanoAbsent == [form |-> "absent", v |-> 0]

\* func (n *otlpNano) UnmarshalJSON (ingest.go:283-297): Sscanf leaves 0
\* for a string that is no number; an absent field keeps the zero value.
otlpNanoUnmarshal(enc) ==
  CASE enc.form = "number" -> enc.v
    [] enc.form = "string" -> enc.v
    [] enc.form = "junk" -> 0
    [] enc.form = "absent" -> 0

otlpNanoTime_Local(n) ==
  IF n = 0 THEN [t |-> ZeroInstant, loc |-> "UTC"]
  ELSE [t |-> n, loc |-> "Local"]

\* func (n otlpNano) Time() (ingest.go:299-304)
otlpNanoTime(n) ==
  IF n = 0 THEN [t |-> ZeroInstant, loc |-> "UTC"]
  ELSE [t |-> n, loc |-> "UTC"]

\* time.Time.Format("2006-01-02"): the calendar day in the value's zone.
FormatDate(tm) ==
  (tm.t + (IF tm.loc = "UTC" THEN 0 ELSE LocalOffset)) \div DayLen

\* The UTC calendar day of an instant.
UTCDay(t) == t \div DayLen

\* func extractServiceName (ingest.go:407-414): the first attribute with
\* the key service.name decides.
RECURSIVE extractServiceName(_)
extractServiceName(attrs) ==
  IF attrs = <<>> THEN "unknown"
  ELSE IF Head(attrs).Key = "service.name"
         THEN otlpValueString(Head(attrs).Value)
         ELSE extractServiceName(Tail(attrs))

HasServiceName(attrs) ==
  \E i \in 1..Len(attrs) : attrs[i].Key = "service.name"

\* The data points of one shape of a metric; a shape that is absent (a nil
\* pointer) has none, like one with an empty dataPoints list.
PointsOf(shape, name) ==
  [i \in 1..Len(shape) |->
     [metricType |-> name,
      timestamp |-> otlpNanoTime(otlpNanoUnmarshal(shape[i]))]]

\* func extractDataPoints (ingest.go:365-405)
extractDataPoints(m) ==
  PointsOf(m.Sum, "sum") \o PointsOf(m.Gauge, "gauge")
    \o PointsOf(m.Histogram, "histogram")

(***************************************************************************)
(* Rows.  src tells which line and record of the file a row came from.     *)
(***************************************************************************)
Row(li, ri, k, mtype, tm, svc) ==
  [src |-> <<li, ri, k>>, metric_type |-> mtype, timestamp |-> tm.t,
   service_name |-> svc, date |-> FormatDate(tm)]

\* ingestTraces, ingest.go:88-112 (and ingestLogs, 225-242): one row per
\* span (log record); ingestMetrics, 155-174: one row per data point.
RowsOfRecord(signal, li, ri, rec, svc) ==
  IF signal = "metrics"
    THEN LET pts == extractDataPoints(rec)
         IN [k \in 1..Len(pts) |->
               Row(li, ri, k, pts[k].metricType, pts[k].timestamp, svc)]
    ELSE << Row(li, ri, 1, "", otlpNanoTime(otlpNanoUnmarshal(rec.nano)), svc) >>

RowsOfLine(signal, li, line) ==
  LET svc == extractServiceName(line.attrs)
  IN Flatten([ri \in 1..Len(line.records) |->
                RowsOfRecord(signal, li, ri, line.records[ri], svc)])

(***************************************************************************)
(* The lines a signal file is made of.                                     *)
(***************************************************************************)
Rec(nano, sum, gauge, hist) ==
  [nano |-> nano, Sum |-> sum, Gauge |-> gauge, Histogram |-> hist]

Batch(attrs, records) == [kind |-> "json", attrs |-> attrs, records |-> records]

BadLine == [kind |-> "bad", attrs |-> <<>>, records |-> <<>>]
LongLine == [kind |-> "long", attrs |-> <<>>, records |-> <<>>]

LineSet ==
  { BadLine,
    LongLine,
    Batch(<< [Key |-> "host", Value |-> StrVal("h")],
             [Key |-> "service.name", Value |-> StrVal("api")] >>,
          << Rec(NanoStr(1), <<NanoStr(1)>>, <<>>, <<>>) >>),
    Batch(<< [Key |-> "host", Value |-> BoolVal(TRUE)] >>,
          << Rec(NanoAbsent, <<>>, <<NanoAbsent>>, <<NanoNum(DayLen + 1)>>),
             Rec(NanoNum(DayLen + 1), <<>>, <<>>, <<>>) >>),
    Batch(<< [Key |-> "service.name", Value |-> StrVal("")] >>,
          << Rec(NanoNum(0 - 1), <<NanoJunk, NanoNum(0 - 1)>>, <<>>, <<>>) >>) }

WellFormed(line) == line.kind = "json"

\* json.Unmarshal(scanner.Bytes(), &batch) fails (ingest.go:84, 151, 221)
UnmarshalFails(line) == line.kind # "json"

FilesOfLen(n) == {File(ls) : ls \in [1..n -> LineSet]} \cup
                 (IF n = 0 THEN {NoFile} ELSE {})

\* The rows of every well-formed line of a file.
FileRows(signal) ==
  Flatten([li \in 1..Len(files[signal].lines) |->
             IF WellFormed(files[signal].lines[li])
               THEN RowsOfLine(signal, li, files[signal].lines[li])
               ELSE <<>>])

Unreadable(signal) ==
  \E li \in 1..Len(files[signal].lines) : files[signal].lines[li].kind = "long"

(***************************************************************************)
(* IngestAll and ingestTraces / ingestMetrics / ingestLogs                 *)
(***************************************************************************)
IngestErr ==
  [s \in SignalSet |->
     CASE s = "traces" -> "ingesting traces"
       [] s = "metrics" -> "ingesting metrics"
       [] s = "logs" -> "ingesting logs"]

EmptyTables == [s \in SignalSet |-> <<>>]

IgInit ==
  [pc |-> "idle", sig |-> 1, ln |-> 0, tx |-> <<>>, err |-> ErrNil,
   base |-> EmptyTables, committed |-> EmptyTables,
   fault |-> FALSE, readFailed |-> {},
   runs |-> 0, failed |-> FALSE, single |-> [s \in SignalSet |-> 0]]

\* The signal the loop of IngestAll is at.
CurSignal == Signals[ig.sig]

IngestInit ==
  /\ \E n1 \in 0..MaxLines :
       \E n2 \in 0..(MaxLines - n1) :
         \E n3 \in 0..(MaxLines - n1 - n2) :
           \E f1 \in FilesOfLen(n1), f2 \in FilesOfLen(n2), f3 \in FilesOfLen(n3) :
             files = [s \in SignalSet |->
                        CASE s = "traces" -> f1
                          [] s = "metrics" -> f2
                          [] s = "logs" -> f3]
  /\ tables = EmptyTables
  /\ ig = IgInit
  /\ InitCommon /\ dockerInPath = TRUE
  /\ AliveAtRest /\ HealthAtRest /\ QueryAtRest /\ ConfigAtRest

\* ingest.go:14-15: the command calls IngestAll; the loop starts at traces.
\* Ingests are followed up to the first one that fails: an ingest reads the
\* files only and appends, so what it does never depends on what an earlier
\* ingest left in the tables.
IngestAll ==
  /\ ig.pc = "idle"
  /\ ig.runs < MaxRuns
  /\ ~ig.failed
  /\ ig' = [ig EXCEPT !.pc = "stat", !.sig = 1, !.ln = 0, !.tx = <<>>,
                      !.err = ErrNil, !.base = tables,
                      !.committed = EmptyTables,
                      !.fault = FALSE, !.readFailed = {}]
  /\ UNCHANGED <<supVars, alive, wh, files, tables, qp, cf>>

\* ingest.go:15-19 and 35: the next signal; a missing file is skipped.
IngestStat ==
  /\ ig.pc = "stat"
  /\ ig' = IF ig.sig > Len(Signals)
             THEN [ig EXCEPT !.pc = "done", !.err = ErrNil]
             ELSE IF ~files[CurSignal].exists
               THEN [ig EXCEPT !.sig = ig.sig + 1]
               ELSE [ig EXCEPT !.pc = "open"]
  /\ UNCHANGED <<supVars, alive, wh, files, tables, qp, cf>>

\* ingest.go:39-58: os.Open, db.Begin, tx.Prepare; each may fail, and the
\* error comes back from IngestAll with the signal's name (ingest.go:22-32).
IngestOpen ==
  /\ ig.pc = "open"
  /\ \/ ig' = [ig EXCEPT !.pc = "scan", !.ln = 0, !.tx = <<>>]
     \/ ig' = [ig EXCEPT !.pc = "done", !.err = IngestErr[CurSignal],
                         !.fault = TRUE]
  /\ UNCHANGED <<supVars, alive, wh, files, tables, qp, cf>>

IngestScan_AbortOnBad ==
  /\ ig.pc = "scan"
  /\ LET f == files[CurSignal].lines
     IN IF ig.ln = Len(f)
          THEN ig' = [ig EXCEPT !.pc = "commit"]
          ELSE IF f[ig.ln + 1].kind = "long"
            THEN ig' = [ig EXCEPT !.pc = "commit",
                                  !.readFailed = @ \cup {CurSignal}]
            ELSE IF UnmarshalFails(f[ig.ln + 1])
              THEN ig' = [ig EXCEPT !.pc = "commit"]
              ELSE ig' = [ig EXCEPT !.ln = ig.ln + 1, !.pc = "exec"]
  /\ UNCHANGED <<supVars, alive, wh, files, tables, qp, cf>>

\* ingest.go:60 and 84-86: scanner.Scan() returns false at the end of the
\* file and also when it cannot deliver the next line; the loop ends either
\* way and scanner.Err() is not looked at.  A line json.Unmarshal rejects is
\* skipped.
IngestScan ==
  /\ ig.pc = "scan"
  /\ LET f == files[CurSignal].lines
     IN IF ig.ln = Len(f)
          THEN ig' = [ig EXCEPT !.pc = "commit"]
          ELSE IF f[ig.ln + 1].kind = "long"
            THEN ig' = [ig EXCEPT !.pc = "commit",
                                  !.readFailed = @ \cup {CurSignal}]
            ELSE IF UnmarshalFails(f[ig.ln + 1])
              THEN ig' = [ig EXCEPT !.ln = ig.ln + 1]
              ELSE ig' = [ig EXCEPT !.ln = ig.ln + 1, !.pc = "exec"]
  /\ UNCHANGED <<supVars, alive, wh, files, tables, qp, cf>>

IngestExec_PartialCommit ==
  /\ ig.pc = "exec"
  /\ LET rows == RowsOfLine(CurSignal, ig.ln, files[CurSignal].lines[ig.ln])
     IN \/ /\ ig' = [ig EXCEPT !.tx = ig.tx \o rows, !.pc = "scan"]
           /\ UNCHANGED tables
        \/ /\ rows # <<>>
           /\ ig' = [ig EXCEPT !.pc = "done", !.tx = <<>>,
                               !.err = IngestErr[CurSignal], !.fault = TRUE]
           /\ tables' = [tables EXCEPT ![CurSignal] = @ \o ig.tx]
  /\ UNCHANGED <<supVars, alive, wh, files, qp, cf>>

\* ingest.go:88-112: the rows of the line are inserted through the prepared
\* statement of the transaction; when an insert fails the function returns
\* and the deferred tx.Rollback() discards what was inserted.
IngestExec ==
  /\ ig.pc = "exec"
  /\ LET rows == RowsOfLine(CurSignal, ig.ln, files[CurSignal].lines[ig.ln])
     IN \/ ig' = [ig EXCEPT !.tx = ig.tx \o rows, !.pc = "scan"]
        \/ /\ rows # <<>>
           /\ ig' = [ig EXCEPT !.pc = "done", !.tx = <<>>,
                               !.err = IngestErr[CurSignal], !.fault = TRUE]
  /\ UNCHANGED <<supVars, alive, wh, files, tables, qp, cf>>

IngestCommit_Dedup ==
  /\ ig.pc = "commit"
  /\ \/ /\ tables' = [tables EXCEPT ![CurSignal] =
                        @ \o SelectSeq(ig.tx,
                               LAMBDA r : \A i \in 1..Len(tables[CurSignal]) :
                                             tables[CurSignal][i] # r)]
        /\ ig' = [ig EXCEPT !.pc = "stat", !.sig = ig.sig + 1, !.tx = <<>>,
                            !.committed[CurSignal] = ig.tx]
     \/ /\ ig' = [ig EXCEPT !.pc = "done", !.tx = <<>>,
                            !.err = IngestErr[CurSignal], !.fault = TRUE]
        /\ UNCHANGED tables
  /\ UNCHANGED <<supVars, alive, wh, files, qp, cf>>

\* ingest.go:114: tx.Commit() makes the rows visible, all at once, or fails.
IngestCommit ==
  /\ ig.pc = "commit"
  /\ \/ /\ tables' = [tables EXCEPT ![CurSignal] = @ \o ig.tx]
        /\ ig' = [ig EXCEPT !.pc = "stat", !.sig = ig.sig + 1, !.tx = <<>>,
                            !.committed[CurSignal] = ig.tx]
     \/ /\ ig' = [ig EXCEPT !.pc = "done", !.tx = <<>>,
                            !.err = IngestErr[CurSignal], !.fault = TRUE]
        /\ UNCHANGED tables
  /\ UNCHANGED <<supVars, alive, wh, files, qp, cf>>

\* The command returns; the files stay as they are for the next ingest.
IngestReturn ==
  /\ ig.pc = "done"
  /\ ig' = [ig EXCEPT !.pc = "idle",
                      !.runs = ig.runs + 1,
                      !.failed = ig.failed \/ ig.err # ErrNil,
                      !.single = IF ig.runs = 0
                                   THEN [s \in SignalSet |-> Len(tables[s])]
                                   ELSE @]
  /\ UNCHANGED <<supVars, alive, wh, files, tables, qp, cf>>

IngestNext ==
  \/ IngestAll
  \/ IngestStat
  \/ IngestOpen
  \/ IngestScan
  \/ IngestExec
  \/ IngestCommit
  \/ IngestReturn

IngestSpec == IngestInit /\ [][IngestNext]_vars

(***************************************************************************)
(* Properties of the ingestion pipeline.                                   *)
(***************************************************************************)
IsPrefix(a, b) == Len(a) <= Len(b) /\ SubSeq(b, 1, Len(a)) = a

RowsIn(signal) == {tables[signal][i] : i \in 1..Len(tables[signal])}

\* C14: ingestion of one signal file is atomic: at every moment of an
\* ingest each table shows, beyond what it held before, either all the rows
\* of that signal's file or none of them, never a part.
C14_FileAtomic ==
  ig.pc # "idle" =>
      \A s \in SignalSet :
          \/ tables[s] = ig.base[s]
          \/ tables[s] = ig.base[s] \o FileRows(s)

\* C15: when ingest returns an error for one signal file, the files before
\* it (order traces, metrics, logs) keep the rows this ingest committed for
\* them, the failing file and the files after it contribute nothing, and
\* the error names the signal.
C15_EarlierFilesStay ==
  (ig.pc = "done" /\ ig.err # ErrNil) =>
      /\ ig.sig \in 1..Len(Signals)
      /\ ig.err = IngestErr[CurSignal]
      /\ \A j \in 1..Len(Signals) :
           /\ j < ig.sig =>
                /\ tables[Signals[j]] = ig.base[Signals[j]] \o ig.committed[Signals[j]]
                /\ ~Unreadable(Signals[j]) => ig.committed[Signals[j]] = FileRows(Signals[j])
           /\ j >= ig.sig => tables[Signals[j]] = ig.base[Signals[j]]

C15_Witness ==
  /\ ig.pc = "done"
  /\ ig.err = IngestErr["metrics"]
  /\ FileRows("metrics") # <<>>
  /\ ig.committed["traces"] # <<>>
  /\ Len(tables["traces"]) > Len(ig.base["traces"])

\* C16: a malformed line never aborts ingestion: when nothing but malformed
\* lines went wrong, ingest returns no error and every file made of
\* well-formed and malformed lines has exactly the rows of its well-formed
\* lines committed, those after a malformed line included.
C16_MalformedSkipped ==
  (ig.pc = "done" /\ ~ig.fault) =>
      /\ ig.err = ErrNil
      /\ \A s \in SignalSet :
           ~Unreadable(s) => tables[s] = ig.base[s] \o FileRows(s)

C16_Witness ==
  /\ ig.pc = "done"
  /\ ~ig.fault
  /\ \E s \in SignalSet :
       /\ ~Unreadable(s)
       /\ \E i, j \in 1..Len(files[s].lines) :
            /\ i < j
            /\ files[s].lines[i].kind = "bad"
            /\ WellFormed(files[s].lines[j])
            /\ RowsOfLine(s, j, files[s].lines[j]) # <<>>
       /\ Len(tables[s]) > Len(ig.base[s])

\* C17: when reading a signal file fails part-way (a read error, a line
\* over the scanner's limit) the ingest of that file is rolled back in full
\* and the failure is surfaced.
C17_ReadFailureRollsBack ==
  \A s \in SignalSet :
      (ig.pc = "done" /\ s \in ig.readFailed) =>
          /\ ig.err # ErrNil
          /\ tables[s] = ig.base[s]

\* C18: ingest does not deduplicate: an ingest only appends to what the
\* tables held, and k error-free ingests of the same unchanged files leave
\* k times the rows of a single ingest in each table.
C18_NoDedup ==
  /\ ig.pc # "idle" => \A s \in SignalSet : IsPrefix(ig.base[s], tables[s])
  /\ (ig.pc = "idle" /\ ~ig.failed) =>
        \A s \in SignalSet : Len(tables[s]) = ig.runs * ig.single[s]

C18_Witness ==
  /\ ig.pc = "idle"
  /\ ~ig.failed
  /\ ig.runs = MaxRuns
  /\ \A s \in SignalSet : ig.single[s] > 0

\* C19: every metric row has its metric_type among sum, gauge, histogram
\* and a non-empty service_name: the resource's service.name attribute, or
\* "unknown" when the resource has none.
C19_MetricRows ==
  \A r \in RowsIn("metrics") :
      /\ r.metric_type \in {"sum", "gauge", "histogram"}
      /\ r.service_name # ""
      /\ ~HasServiceName(files["metrics"].lines[r.src[1]].attrs)
           => r.service_name = "unknown"

\* C20: every row of the three tables has a timestamp, and its date is the
\* UTC calendar day of that timestamp, also when the OTLP timestamp is zero
\* or missing.
C20_DateIsUTCDay ==
  \A s \in SignalSet :
      \A r \in RowsIn(s) :
          /\ r.timestamp \in Int
          /\ r.date = UTCDay(r.timestamp)

C20_Witness ==
  /\ \E r \in RowsIn("traces") : r.timestamp = ZeroInstant
  /\ \E r \in RowsIn("metrics") : r.timestamp < 0 /\ r.timestamp # ZeroInstant
  /\ \E r \in RowsIn("logs") : r.timestamp > DayLen

(***************************************************************************)
(* Queries, aggregation and pruning (internal/storage: QueryTraces,        *)
(* QueryMetrics, QueryLogs, AggregateMetrics, buildWhere, Prune) and the   *)
(* commands that call them (cmd/lotel: query traces|metrics|logs|          *)
(* aggregate, prune).  One command runs at a time: the database file is    *)
(* held by the one process that opened it.  The tables hold rows as the    *)
(* ingestion leaves them; id tells the rows of a table apart.  A time is   *)
(* an instant of the model's clock, ZeroInstant being the zero time.Time.  *)
(***************************************************************************)
MaxRows == 3

\* time.Now() of the command, and one hour, in units of the model's clock.
QueryNow == 3
Hour == 1

IsZero(t) == t = ZeroInstant

\* The rows a table may hold, by signal: [ts, svc, name, mtype, value].
\* Spans and log records carry no metric columns.
RowKinds ==
  << [sig |-> "traces", ts |-> 2, svc |-> "api", name |-> "", mtype |-> "", value |-> 0],
     [sig |-> "traces", ts |-> 1, svc |-> "api", name |-> "", mtype |-> "", value |-> 0],
     [sig |-> "traces", ts |-> 3, svc |-> "web", name |-> "", mtype |-> "", value |-> 0],
     [sig |-> "traces", ts |-> 2, svc |-> "web", name |-> "", mtype |-> "", value |-> 0],
     [sig |-> "metrics", ts |-> 2, svc |-> "api", name |-> "cpu", mtype |-> "sum", value |-> 4],
     [sig |-> "metrics", ts |-> 1, svc |-> "api", name |-> "cpu", mtype |-> "gauge", value |-> 0 - 1],
     [sig |-> "metrics", ts |-> 3, svc |-> "web", name |-> "cpu", mtype |-> "histogram", value |-> 0],
     [sig |-> "metrics", ts |-> 2, svc |-> "api", name |-> "mem", mtype |-> "gauge", value |-> 7],
     [sig |-> "logs", ts |-> 3, svc |-> "api", name |-> "", mtype |-> "", value |-> 0],
     [sig |-> "logs", ts |-> 1, svc |-> "web", name |-> "", mtype |-> "", value |-> 0] >>

\* The table of one signal that a choice of row kinds gives: the chosen
\* kinds in the order chosen, each row with its place as id.
RECURSIVE TableOf(_, _, _)
TableOf(signal, picks, acc) ==
  IF picks = <<>> THEN acc
  ELSE LET k == RowKinds[Head(picks)]
       IN TableOf(signal, Tail(picks),
                  IF k.sig = signal
                    THEN Append(acc, [id |-> Len(acc) + 1, ts |-> k.ts,
                                      svc |-> k.svc, name |-> k.name,
                                      mtype |-> k.mtype, value |-> k.value])
                    ELSE acc)

\* Choices of at most MaxRows rows; the same kind may come more than once.
Picks ==
  UNION {{p \in [1..n -> 1..Len(RowKinds)] :
            \A i \in 1..n : \A j \in 1..n : i < j => p[i] <= p[j]} : n \in 0..MaxRows}

(***************************************************************************)
(* Flags of the command line.  A time flag is absent (the empty string),   *)
(* an RFC3339 time, a duration such as 24h or 7d, or text that is neither. *)
(***************************************************************************)
FlagAbsent == [kind |-> "absent", v |-> 0]
FlagRFC3339(t) == [kind |-> "rfc3339", v |-> t]
FlagDuration(d) == [kind |-> "duration", v |-> d]
FlagJunk == [kind |-> "junk", v |-> 0]

ErrFilter == "invalid filter"
ErrUsage == "usage"
ErrDB == "database"
ErrQuery == "querying"
ErrPrune == "pruning"

\* parseDuration, part_007:389-398
parseDuration(f) ==
  IF f.kind = "duration" THEN [ok |-> TRUE, d |-> f.v] ELSE [ok |-> FALSE, d |-> 0]

\* parseTime, part_007:375-387
parseTime(f) ==
  IF f.kind = "rfc3339" THEN [ok |-> TRUE, t |-> f.v]
  ELSE IF parseDuration(f).ok
    THEN [ok |-> TRUE, t |-> QueryNow - parseDuration(f).d]
    ELSE [ok |-> FALSE, t |-> ZeroInstant]

\* type QueryOptions, part_006:11-16
QueryOptions(service, since, until, limit) ==
  [Service |-> service, Since |-> since, Until |-> until, Limit |-> limit]

\* parseQueryOpts, part_007:353-373
parseQueryOpts(service, since, until, limit) ==
  LET s == IF since.kind # "absent" THEN parseTime(since)
                                    ELSE [ok |-> TRUE, t |-> ZeroInstant]
      u == IF until.kind # "absent" THEN parseTime(until)
                                    ELSE [ok |-> TRUE, t |-> ZeroInstant]
  IN IF ~s.ok THEN [err |-> ErrFilter,
                    opts |-> QueryOptions(service, ZeroInstant, ZeroInstant, limit)]
     ELSE IF ~u.ok THEN [err |-> ErrFilter,
                         opts |-> QueryOptions(service, s.t, ZeroInstant, limit)]
     ELSE [err |-> ErrNil, opts |-> QueryOptions(service, s.t, u.t, limit)]

(***************************************************************************)
(* The SQL the storage layer builds, by what the database does with it.    *)
(***************************************************************************)
RowSet(table) == {table[i] : i \in 1..Len(table)}

buildWhere_ExclusiveUntil(opts, row) ==
  /\ opts.Service # "" => row.svc = opts.Service
  /\ ~IsZero(opts.Since) => row.ts >= opts.Since
  /\ ~IsZero(opts.Until) => row.ts < opts.Until

\* buildWhere, part_006:233-248: WHERE 1=1 [AND service_name = ?]
\* [AND <timeCol> >= ?] [AND <timeCol> <= ?]
buildWhere(opts, row) ==
  /\ opts.Service # "" => row.svc = opts.Service
  /\ ~IsZero(opts.Since) => row.ts >= opts.Since
  /\ ~IsZero(opts.Until) => row.ts <= opts.Until

\* ORDER BY <timeCol> ASC: every arrangement of the rows in which the time
\* does not decrease; the database is free in the order of equal times.
OrderBy(rows) ==
  {s \in [1..Cardinality(rows) -> rows] :
     /\ \A i \in 1..Cardinality(rows) : \A j \in 1..Cardinality(rows) :
          i < j => (s[i] # s[j] /\ s[i].ts <= s[j].ts)}

\* [LIMIT n], part_006:74-76
Limit(opts, s) ==
  IF opts.Limit > 0 /\ opts.Limit < Len(s) THEN SubSeq(s, 1, opts.Limit) ELSE s

QueryResults_LimitFirst(table, opts) ==
  OrderBy({r \in RowSet(Limit(opts, table)) : buildWhere(opts, r)})

\* QueryTraces, QueryMetrics, QueryLogs (part_006:69-189): the results the
\* SELECT ... WHERE ... ORDER BY ... [LIMIT n] may give.
QueryResults(table, opts) ==
  {Limit(opts, s) : s \in OrderBy({r \in RowSet(table) : buildWhere(opts, r)})}

\* sql.NullFloat64 and the *float64 of MetricAggregation: absent, or a
\* value.  The mean is kept as the fraction it is.
NullFloat == [valid |-> FALSE, num |-> 0, den |-> 1]
Float(n) == [valid |-> TRUE, num |-> n, den |-> 1]
Fraction(n, d) == [valid |-> TRUE, num |-> n, den |-> d]

RECURSIVE SumValues(_)
SumValues(rows) ==
  IF rows = {} THEN 0
  ELSE LET r == CHOOSE x \in rows : TRUE
       IN r.value + SumValues(rows \ {r})

MinValue(rows) == CHOOSE v \in {r.value : r \in rows} : \A r \in rows : v <= r.value
MaxValue(rows) == CHOOSE v \in {r.value : r \in rows} : \A r \in rows : v >= r.value

NoAggregation == [MetricName |-> "", ServiceName |-> "", Count |-> 0,
                  Avg |-> NullFloat, Min |-> NullFloat, Max |-> NullFloat]

AggregateMetrics_ZeroWhenEmpty(table, opts, metricName) ==
  LET rows == {r \in RowSet(table) :
                 /\ r.name = metricName
                 /\ opts.Service # "" => r.svc = opts.Service
                 /\ ~IsZero(opts.Since) => r.ts >= opts.Since
                 /\ ~IsZero(opts.Until) => r.ts <= opts.Until}
  IN [MetricName |-> metricName, ServiceName |-> opts.Service,
      Count |-> Cardinality(rows),
      Avg |-> IF rows = {} THEN Float(0)
              ELSE Fraction(SumValues(rows), Cardinality(rows)),
      Min |-> IF rows = {} THEN Float(0) ELSE Float(MinValue(rows)),
      Max |-> IF rows = {} THEN Float(0) ELSE Float(MaxValue(rows))]

\* AggregateMetrics, part_006:192-231: SELECT COUNT(*), AVG(value),
\* MIN(value), MAX(value) FROM metrics WHERE metric_name = ? [AND ...];
\* over no rows the three aggregates are NULL and stay nil in the result.
AggregateMetrics(table, opts, metricName) ==
  LET rows == {r \in RowSet(table) :
                 /\ r.name = metricName
                 /\ opts.Service # "" => r.svc = opts.Service
                 /\ ~IsZero(opts.Since) => r.ts >= opts.Since
                 /\ ~IsZero(opts.Until) => r.ts <= opts.Until}
  IN [MetricName |-> metricName, ServiceName |-> opts.Service,
      Count |-> Cardinality(rows),
      Avg |-> IF rows = {} THEN NullFloat
              ELSE Fraction(SumValues(rows), Cardinality(rows)),
      Min |-> IF rows = {} THEN NullFloat ELSE Float(MinValue(rows)),
      Max |-> IF rows = {} THEN NullFloat ELSE Float(MaxValue(rows))]

\* Prune's two statements for one signal (db.go:140-158):
\* SELECT COUNT(*) / DELETE FROM <signal> WHERE <timeCol> < ?
\* [AND service_name = ?]
PruneCountQuery(table, cutoff, service) ==
  Cardinality({r \in RowSet(table) :
                 r.ts < cutoff /\ (service # "" => r.svc = service)})

PruneDeleteQuery_Inclusive(table, cutoff, service) ==
  SelectSeq(table, LAMBDA r : ~(r.ts <= cutoff /\ (service # "" => r.svc = service)))

PruneDeleteQuery(table, cutoff, service) ==
  SelectSeq(table, LAMBDA r : ~(r.ts < cutoff /\ (service # "" => r.svc = service)))

\* type PruneReport, db.go:118-123
PruneReport(signal, service, deleted, cutoff) ==
  [Signal |-> signal, ServiceName |-> service, Deleted |-> deleted,
   Cutoff |-> cutoff]

(***************************************************************************)
(* The commands.                                                           *)
(***************************************************************************)
NoFlags ==
  [service |-> "", since |-> FlagAbsent, until |-> FlagAbsent, limit |-> 0,
   metric |-> "", olderThan |-> FlagAbsent, all |-> FALSE, dryRun |-> FALSE]

QpInit(t) ==
  [pc |-> "idle", cmd |-> "none", flags |-> NoFlags,
   opts |-> QueryOptions("", ZeroInstant, ZeroInstant, 0),
   cutoff |-> ZeroInstant, opened |-> FALSE, err |-> ErrNil,
   rows |-> <<>>, agg |-> NoAggregation, reports |-> <<>>,
   sig |-> 1, count |-> 0, failedAt |-> 0, base |-> t]

QueryInit ==
  /\ \E picks \in Picks :
       tables = [s \in SignalSet |-> TableOf(s, picks, <<>>)]
  /\ qp = QpInit(tables)
  /\ files = AtRest /\ ig = AtRest
  /\ InitCommon /\ dockerInPath = TRUE
  /\ AliveAtRest /\ HealthAtRest /\ ConfigAtRest

ServiceFlags == {"", "api"}
SinceFlags == {FlagAbsent, FlagRFC3339(2), FlagDuration(2 * Hour), FlagJunk}
UntilFlags == {FlagAbsent, FlagRFC3339(2), FlagJunk}
LimitFlags == {0, 1, 2}
MetricFlags == {"", "cpu"}
OlderThanFlags == {FlagAbsent, FlagDuration(Hour), FlagRFC3339(2), FlagJunk}

QpDone(q, e) == [q EXCEPT !.pc = "done", !.err = e]

\* lotel query traces|metrics|logs|aggregate with its flags
\* (part_007:193-289); aggregate wants --metric before anything else.
QueryCmd ==
  /\ qp.pc = "idle"
  /\ \E c \in SignalSet \cup {"aggregate"} :
       \E sv \in ServiceFlags, si \in SinceFlags, un \in UntilFlags,
          li \in LimitFlags, mn \in MetricFlags :
         /\ c # "aggregate" => mn = ""
         /\ LET q == [qp EXCEPT !.cmd = c,
                        !.flags = [NoFlags EXCEPT !.service = sv, !.since = si,
                                     !.until = un, !.metric = mn,
                                     !.limit = IF c = "aggregate" THEN 0 ELSE li]]
            IN qp' = IF c = "aggregate" /\ mn = ""
                       THEN QpDone(q, ErrUsage)
                       ELSE [q EXCEPT !.pc = "open"]
  /\ UNCHANGED <<supVars, alive, wh, files, tables, ig, cf>>

\* storage.DB() (db.go:20-34): the database file is opened and migrated,
\* or one of the two fails.  Queries call it first (part_007:197, 218, 239,
\* 265), prune after its flags are parsed (part_007:320).
CmdOpenDB ==
  /\ qp.pc = "open"
  /\ \/ qp' = [qp EXCEPT !.opened = TRUE,
                         !.pc = IF qp.cmd = "prune" THEN "count" ELSE "parse"]
     \/ qp' = QpDone(qp, ErrDB)
  /\ UNCHANGED <<supVars, alive, wh, files, tables, ig, cf>>

\* parseQueryOpts(service, since, until, limit), part_007:201-204
QueryParse ==
  /\ qp.pc = "parse"
  /\ LET r == parseQueryOpts(qp.flags.service, qp.flags.since,
                             qp.flags.until, qp.flags.limit)
     IN qp' = IF r.err # ErrNil THEN QpDone(qp, r.err)
              ELSE [qp EXCEPT !.opts = r.opts,
                              !.pc = IF qp.cmd = "aggregate" THEN "aggregate"
                                                             ELSE "query"]
  /\ UNCHANGED <<supVars, alive, wh, files, tables, ig, cf>>

\* storage.QueryTraces / QueryMetrics / QueryLogs, part_006:69-189
QueryRun ==
  /\ qp.pc = "query"
  /\ \/ \E rs \in QueryResults(tables[qp.cmd], qp.opts) :
          qp' = [QpDone(qp, ErrNil) EXCEPT !.rows = rs]
     \/ qp' = QpDone(qp, ErrQuery)
  /\ UNCHANGED <<supVars, alive, wh, files, tables, ig, cf>>

\* storage.AggregateMetrics, part_006:192-231
AggregateRun ==
  /\ qp.pc = "aggregate"
  /\ \/ qp' = [QpDone(qp, ErrNil) EXCEPT
                 !.agg = AggregateMetrics(tables["metrics"], qp.opts,
                                          qp.flags.metric)]
     \/ qp' = QpDone(qp, ErrQuery)
  /\ UNCHANGED <<supVars, alive, wh, files, tables, ig, cf>>

\* lotel prune (part_007:301-318): the flag checks, then the cutoff.
PruneCmd ==
  /\ qp.pc = "idle"
  /\ \E ot \in OlderThanFlags, sv \in ServiceFlags, dr \in BOOLEAN, al \in BOOLEAN :
       LET q == [qp EXCEPT !.cmd = "prune",
                   !.flags = [NoFlags EXCEPT !.olderThan = ot, !.service = sv,
                                !.dryRun = dr, !.all = al]]
       IN qp' = IF al /\ ot.kind # "absent" THEN QpDone(q, ErrUsage)
                ELSE IF ~al /\ ot.kind = "absent" THEN QpDone(q, ErrUsage)
                ELSE IF al THEN [q EXCEPT !.cutoff = QueryNow + Hour, !.pc = "open"]
                ELSE IF ~parseDuration(ot).ok THEN QpDone(q, ErrFilter)
                ELSE [q EXCEPT !.cutoff = QueryNow - parseDuration(ot).d,
                               !.pc = "open"]
  /\ UNCHANGED <<supVars, alive, wh, files, tables, ig, cf>>

\* db.go:166-173: the report of this signal is appended, the loop goes on;
\* after the last signal the reports are returned.
PruneAppend(q, deleted) ==
  [q EXCEPT !.reports = Append(@, PruneReport(Signals[q.sig], q.flags.service,
                                              deleted, q.cutoff)),
            !.sig = @ + 1, !.count = 0,
            !.pc = IF q.sig = Len(Signals) THEN "done" ELSE "count"]

PruneFail_KeepReports(q) ==
  [QpDone(q, ErrPrune) EXCEPT !.failedAt = q.sig]

\* db.go:149, 161: return nil, err
PruneFail(q) ==
  [QpDone(q, ErrPrune) EXCEPT !.reports = <<>>, !.failedAt = q.sig]

PruneCount_IgnoreDryRun ==
  /\ qp.pc = "count"
  /\ \/ LET n == PruneCountQuery(tables[Signals[qp.sig]], qp.cutoff,
                                 qp.flags.service)
        IN qp' = IF n > 0
                   THEN [qp EXCEPT !.count = n, !.pc = "delete"]
                   ELSE PruneAppend(qp, n)
     \/ qp' = PruneFail(qp)
  /\ UNCHANGED <<supVars, alive, wh, files, tables, ig, cf>>

\* db.go:136-152: the count of one signal
PruneCount ==
  /\ qp.pc = "count"
  /\ \/ LET n == PruneCountQuery(tables[Signals[qp.sig]], qp.cutoff,
                                 qp.flags.service)
        IN qp' = IF ~qp.flags.dryRun /\ n > 0
                   THEN [qp EXCEPT !.count = n, !.pc = "delete"]
                   ELSE PruneAppend(qp, n)
     \/ qp' = PruneFail(qp)
  /\ UNCHANGED <<supVars, alive, wh, files, tables, ig, cf>>

\* db.go:152-164: the delete of one signal; the count reported is the
\* number of rows the statement affected.
PruneDelete ==
  /\ qp.pc = "delete"
  /\ \/ LET t == PruneDeleteQuery(tables[Signals[qp.sig]], qp.cutoff,
                                  qp.flags.service)
        IN /\ tables' = [tables EXCEPT ![Signals[qp.sig]] = t]
           /\ qp' = PruneAppend(qp, Len(tables[Signals[qp.sig]]) - Len(t))
     \/ /\ qp' = PruneFail(qp)
        /\ UNCHANGED tables
  /\ UNCHANGED <<supVars, alive, wh, files, ig, cf>>

\* The command has printed its result; the next command starts afresh.
CmdReturn ==
  /\ qp.pc = "done"
  /\ qp' = QpInit(tables)
  /\ UNCHANGED <<supVars, alive, wh, files, tables, ig, cf>>

QueryNext ==
  \/ QueryCmd
  \/ CmdOpenDB
  \/ QueryParse
  \/ QueryRun
  \/ AggregateRun
  \/ PruneCmd
  \/ PruneCount
  \/ PruneDelete
  \/ CmdReturn

QuerySpec == QueryInit /\ [][QueryNext]_vars

(***************************************************************************)
(* Properties of queries, aggregation and pruning.                         *)
(***************************************************************************)
QueryDone == qp.pc = "done" /\ qp.cmd \in SignalSet /\ qp.err = ErrNil

\* The rows of a table that pass the filter of the options in force.
Matching(table) == {r \in RowSet(table) : buildWhere(qp.opts, r)}

\* C21: a query returns its rows sorted non-decreasing by the primary
\* timestamp; the rows are matching rows, each at most once; with limit
\* n > 0 there are min(n, number of matching rows) of them and no matching
\* row left out is earlier than a row returned (the limit cuts the ordered
\* matching rows); with limit 0 all matching rows are returned.
C21_SortedThenLimited ==
  QueryDone =>
    LET rs == qp.rows
        m == Matching(tables[qp.cmd])
        n == qp.opts.Limit
    IN /\ \A i \in 1..Len(rs) : \A j \in 1..Len(rs) :
            i < j => (rs[i].ts <= rs[j].ts /\ rs[i] # rs[j])
       /\ RowSet(rs) \subseteq m
       /\ n > 0 => Len(rs) = (IF n < Cardinality(m) THEN n ELSE Cardinality(m))
       /\ n > 0 => \A r \in m \ RowSet(rs) : \A i \in 1..Len(rs) : rs[i].ts <= r.ts
       /\ n = 0 => RowSet(rs) = m

\* A limit that cuts: two matching rows of different times, the later one
\* stored first, and one row asked for.
C21_Witness ==
  /\ QueryDone /\ qp.opts.Limit = 1 /\ Len(qp.rows) = 1
  /\ \E r \in Matching(tables[qp.cmd]) :
       /\ r.ts > qp.rows[1].ts
       /\ r.id < qp.rows[1].id

\* C22: a query returns exactly the rows that satisfy every filter that is
\* present: the service equal to --service, the primary timestamp at or
\* after --since and at or before --until; an empty service and a zero
\* since or until do not restrict.  (Under a limit: only such rows.)
C22_ExactlyTheFiltered ==
  QueryDone =>
    LET sat == {r \in RowSet(tables[qp.cmd]) :
                  /\ qp.flags.service = "" \/ r.svc = qp.flags.service
                  /\ qp.flags.since.kind = "absent" \/ IsZero(qp.opts.Since)
                       \/ r.ts >= qp.opts.Since
                  /\ qp.flags.until.kind = "absent" \/ IsZero(qp.opts.Until)
                       \/ r.ts <= qp.opts.Until}
    IN /\ RowSet(qp.rows) \subseteq sat
       /\ qp.opts.Limit = 0 => RowSet(qp.rows) = sat

\* Both bounds given and met with equality, another row cut off by each.
C22_Witness ==
  /\ QueryDone /\ qp.opts.Limit = 0
  /\ ~IsZero(qp.opts.Since) /\ ~IsZero(qp.opts.Until)
  /\ \E r \in RowSet(qp.rows) : r.ts = qp.opts.Since /\ r.ts = qp.opts.Until
  /\ \E r \in RowSet(tables[qp.cmd]) : r.ts < qp.opts.Since
  /\ \E r \in RowSet(tables[qp.cmd]) : r.ts > qp.opts.Until

AggDone == qp.pc = "done" /\ qp.cmd = "aggregate" /\ qp.err = ErrNil /\ qp.opened

\* The metric rows an aggregate is about.
AggRows ==
  {r \in RowSet(tables["metrics"]) :
     r.name = qp.flags.metric /\ buildWhere(qp.opts, r)}

\* C23: aggregate returns the count, the unweighted mean, the minimum and
\* the maximum of value over exactly the metric rows of the given name
\* that pass the service/since/until filter, whatever their metric type;
\* over no rows the count is 0 and avg, min and max are absent.
C23_AggregateOverMatching ==
  AggDone =>
    /\ qp.agg.MetricName = qp.flags.metric
    /\ qp.agg.ServiceName = qp.flags.service
    /\ qp.agg.Count = Cardinality(AggRows)
    /\ AggRows = {} =>
         ~qp.agg.Avg.valid /\ ~qp.agg.Min.valid /\ ~qp.agg.Max.valid
    /\ AggRows # {} =>
         /\ qp.agg.Avg.valid /\ qp.agg.Min.valid /\ qp.agg.Max.valid
         /\ qp.agg.Avg.num * Cardinality(AggRows) = SumValues(AggRows) * qp.agg.Avg.den
         /\ \A r \in AggRows : qp.agg.Min.num <= r.value /\ r.value <= qp.agg.Max.num
         /\ \E r \in AggRows : qp.agg.Min.num = r.value
         /\ \E r \in AggRows : qp.agg.Max.num = r.value

\* An aggregate over rows of two metric types while the table holds a row
\* of another name.
C23_Witness ==
  /\ AggDone
  /\ \E r1 \in AggRows : \E r2 \in AggRows :
       r1.mtype # r2.mtype /\ r1.value # r2.value
  /\ \E r \in RowSet(tables["metrics"]) : r.name # qp.flags.metric

PruneDone == qp.pc = "done" /\ qp.cmd = "prune" /\ qp.err = ErrNil /\ qp.opened

\* The rows of a table a prune is to delete: older than the cutoff, of the
\* service given (of any service when none is given).
Prunable(table) ==
  {r \in RowSet(table) :
     r.ts < qp.cutoff /\ (qp.flags.service = "" \/ r.svc = qp.flags.service)}

\* C24: a dry run never changes a table, and it reports for each signal
\* the number of rows a prune of the same cutoff and service would delete.
C24_DryRunChangesNothing ==
  (qp.cmd = "prune" /\ qp.flags.dryRun) =>
    /\ tables = qp.base
    /\ PruneDone =>
         /\ Len(qp.reports) = Len(Signals)
         /\ \A i \in 1..Len(Signals) :
              /\ qp.reports[i].Signal = Signals[i]
              /\ qp.reports[i].Deleted = Cardinality(Prunable(tables[Signals[i]]))
              /\ qp.reports[i].Deleted =
                   Len(tables[Signals[i]])
                     - Len(PruneDeleteQuery(tables[Signals[i]], qp.cutoff,
                                            qp.flags.service))

C24_Witness ==
  /\ PruneDone /\ qp.flags.dryRun
  /\ \E i \in 1..Len(Signals) :
       qp.reports[i].Deleted > 0 /\ qp.reports[i].Deleted < Len(tables[Signals[i]])

\* C25: after a prune that succeeded, every table holds exactly the rows
\* it held before that are not older than the cutoff or are of another
\* service, unchanged and in their order, and each signal's report counts
\* the rows removed from its table.
C25_PruneDeletesExactlyTheOld ==
  (PruneDone /\ ~qp.flags.dryRun) =>
    /\ Len(qp.reports) = Len(Signals)
    /\ \A i \in 1..Len(Signals) :
         LET before == qp.base[Signals[i]]
             after == tables[Signals[i]]
         IN /\ RowSet(after) = RowSet(before) \ Prunable(before)
            /\ Prunable(after) = {}
            /\ after = SelectSeq(before, LAMBDA r : r \in RowSet(after))
            /\ qp.reports[i].Signal = Signals[i]
            /\ qp.reports[i].Deleted = Len(before) - Len(after)

\* A prune that removed a row and kept one at the cutoff and one of
\* another service that is older than the cutoff.
C25_Witness ==
  /\ PruneDone /\ ~qp.flags.dryRun /\ qp.flags.service # ""
  /\ \E i \in 1..Len(Signals) : qp.reports[i].Deleted > 0
  /\ \E s \in SignalSet : \E r \in RowSet(tables[s]) :
       r.ts < qp.cutoff /\ r.svc # qp.flags.service
  /\ \E s \in SignalSet : \E r \in RowSet(tables[s]) : r.ts = qp.cutoff

\* C26: an unparseable --since, --until or --older-than is reported before
\* any database work: the command that ends with the filter error has not
\* opened the database.
C26_FilterErrorBeforeDatabase ==
  (qp.pc = "done" /\ qp.err = ErrFilter) => ~qp.opened

\* C30: prune goes through traces, metrics, logs in this order and is not
\* atomic across them: when the count or the delete of one signal fails,
\* prune returns the error and no report, the signals before it are pruned
\* (their deletions stay), that signal and the later ones are untouched.
C30_PruneNotAtomic ==
  /\ (qp.cmd = "prune" /\ qp.pc \in {"count", "delete"}) =>
       /\ Len(qp.reports) = qp.sig - 1
       /\ \A i \in 1..Len(Signals) :
            tables[Signals[i]] =
              IF i < qp.sig /\ ~qp.flags.dryRun
                THEN PruneDeleteQuery(qp.base[Signals[i]], qp.cutoff, qp.flags.service)
                ELSE qp.base[Signals[i]]
  /\ (qp.cmd = "prune" /\ qp.pc = "done" /\ qp.err = ErrPrune) =>
       /\ qp.reports = <<>>
       /\ qp.failedAt \in 1..Len(Signals)
       /\ \A i \in 1..Len(Signals) :
            tables[Signals[i]] =
              IF i < qp.failedAt /\ ~qp.flags.dryRun
                THEN PruneDeleteQuery(qp.base[Signals[i]], qp.cutoff, qp.flags.service)
                ELSE qp.base[Signals[i]]

\* The metrics step failed after rows of traces were deleted, with rows to
\* delete in metrics still there.
C30_Witness ==
  /\ qp.cmd = "prune" /\ qp.pc = "done" /\ qp.err = ErrPrune
  /\ qp.failedAt = 2
  /\ Len(tables["traces"]) < Len(qp.base["traces"])
  /\ Prunable(tables["metrics"]) # {}

(***************************************************************************)
(* Config resolution (internal/config: ResolvePaths).  The files it looks  *)
(* at: the project-local lotel-collector.yaml of the working directory,    *)
(* collector-config.yaml of the state directory ~/.lotel, and the data     *)
(* subdirectories ~/.lotel/data/{traces,metrics,logs}.  Between two calls  *)
(* the user may write, edit or remove any of them.                         *)
(***************************************************************************)
LocalConfigPath == "<cwd>/lotel-collector.yaml"
StateConfigPath == "<home>/.lotel/collector-config.yaml"
DataRoot == "<home>/.lotel/data"

\* const DefaultConfig (part_003:16-63), a user's own text, and what a
\* failed write may leave behind.
DefaultConfig == "default config"
UserConfig == "user config"
PartConfig == "part of the default config"

Absent == [exists |-> FALSE, content |-> ""]
Present(content) == [exists |-> TRUE, content |-> content]

ErrHome == "getting home directory"
ErrMkdirData == "creating data subdirectory"
ErrMkdirLotel == "creating lotel directory"
ErrWriteDefault == "writing default config"

NoPaths == [configPath |-> "", dataPath |-> "", err |-> ErrNil]

CfInit ==
  [pc |-> "idle", sub |-> 1, local |-> Absent, state |-> Absent, dirs |-> {},
   ret |-> NoPaths, atCall |-> [local |-> Absent, state |-> Absent],
   prev |-> [valid |-> FALSE, configPath |-> "", dataPath |-> "",
             state |-> Absent]]

ConfigInit ==
  /\ cf = CfInit
  /\ InitCommon /\ dockerInPath = TRUE
  /\ AliveAtRest /\ HealthAtRest /\ IngestAtRest /\ QueryAtRest

CfReturn(c, r) == [c EXCEPT !.pc = "done", !.ret = r]

\* part_003:68-74: os.UserHomeDir, then the data root under it
ResolvePaths ==
  /\ cf.pc = "idle"
  /\ \/ cf' = [cf EXCEPT !.pc = "mkdir", !.sub = 1, !.ret = NoPaths,
                         !.atCall = [local |-> cf.local, state |-> cf.state]]
     \/ cf' = [CfReturn(cf, [NoPaths EXCEPT !.err = ErrHome]) EXCEPT
                 !.atCall = [local |-> cf.local, state |-> cf.state]]
  /\ UNCHANGED <<supVars, alive, wh, files, tables, ig, qp>>

\* part_003:75-79: os.MkdirAll of the next data subdirectory
ResolveMkdirData ==
  /\ cf.pc = "mkdir"
  /\ \/ cf' = [cf EXCEPT !.dirs = @ \cup {Signals[cf.sub]},
                         !.sub = @ + 1,
                         !.pc = IF cf.sub = Len(Signals) THEN "local" ELSE "mkdir"]
     \/ cf' = CfReturn(cf, [NoPaths EXCEPT !.err = ErrMkdirData])
  /\ UNCHANGED <<supVars, alive, wh, files, tables, ig, qp>>

\* part_003:82-88: os.Getwd and os.Stat of the project-local candidate;
\* Getwd fails only where the working directory is gone, its files with it.
ResolveLocal ==
  /\ cf.pc = "local"
  /\ cf' = IF cf.local.exists
             THEN CfReturn(cf, [configPath |-> LocalConfigPath,
                                dataPath |-> DataRoot, err |-> ErrNil])
             ELSE [cf EXCEPT !.pc = "lotelDir"]
  /\ UNCHANGED <<supVars, alive, wh, files, tables, ig, qp>>

\* part_003:91-95: os.MkdirAll of the state directory
ResolveMkdirLotel ==
  /\ cf.pc = "lotelDir"
  /\ \/ cf' = [cf EXCEPT !.pc = "state"]
     \/ cf' = CfReturn(cf, [NoPaths EXCEPT !.err = ErrMkdirLotel])
  /\ UNCHANGED <<supVars, alive, wh, files, tables, ig, qp>>

ResolveState_AlwaysWrite ==
  /\ cf.pc = "state"
  /\ cf' = CfReturn([cf EXCEPT !.state = Present(DefaultConfig)],
                    [configPath |-> StateConfigPath, dataPath |-> DataRoot,
                     err |-> ErrNil])
  /\ UNCHANGED <<supVars, alive, wh, files, tables, ig, qp>>

\* part_003:96-102: os.Stat of the state-directory config; os.WriteFile of
\* the default when it is not there.  A write that fails may have created
\* the file and written a part of it.
ResolveState ==
  /\ cf.pc = "state"
  /\ IF ~cf.state.exists
       THEN \/ cf' = CfReturn([cf EXCEPT !.state = Present(DefaultConfig)],
                              [configPath |-> StateConfigPath,
                               dataPath |-> DataRoot, err |-> ErrNil])
            \/ \E left \in {Absent, Present(PartConfig)} :
                 cf' = CfReturn([cf EXCEPT !.state = left],
                                [NoPaths EXCEPT !.err = ErrWriteDefault])
       ELSE cf' = CfReturn(cf, [configPath |-> StateConfigPath,
                                dataPath |-> DataRoot, err |-> ErrNil])
  /\ UNCHANGED <<supVars, alive, wh, files, tables, ig, qp>>

\* The caller has the paths; what a call without error returned is kept to
\* compare the next call with.
ResolveReturn ==
  /\ cf.pc = "done"
  /\ cf' = [cf EXCEPT !.pc = "idle", !.ret = NoPaths,
                      !.prev = IF cf.ret.err = ErrNil
                                 THEN [valid |-> TRUE,
                                       configPath |-> cf.ret.configPath,
                                       dataPath |-> cf.ret.dataPath,
                                       state |-> cf.state]
                                 ELSE [@ EXCEPT !.valid = FALSE]]
  /\ UNCHANGED <<supVars, alive, wh, files, tables, ig, qp>>

\* Between two calls the user writes or removes the project-local file,
\* edits or removes the state-directory config, or removes a data
\* subdirectory.
UserChange ==
  /\ cf.pc = "idle"
  /\ \/ \E f \in {Absent, Present(UserConfig)} :
          f # cf.local /\ cf' = [cf EXCEPT !.local = f, !.prev.valid = FALSE]
     \/ \E f \in {Absent, Present(UserConfig)} :
          f # cf.state /\ cf' = [cf EXCEPT !.state = f, !.prev.valid = FALSE]
     \/ \E d \in cf.dirs :
          cf' = [cf EXCEPT !.dirs = @ \ {d}, !.prev.valid = FALSE]
  /\ UNCHANGED <<supVars, alive, wh, files, tables, ig, qp>>

ConfigNext ==
  \/ ResolvePaths
  \/ ResolveMkdirData
  \/ ResolveLocal
  \/ ResolveMkdirLotel
  \/ ResolveState
  \/ ResolveReturn
  \/ UserChange

ConfigSpec == ConfigInit /\ [][ConfigNext]_vars

\* C27: a call that returns without error returns the project-local
\* lotel-collector.yaml when that file exists; otherwise the path of the
\* state-directory config, which then exists, with the content it had when
\* it existed before and the built-in default when it did not.  No call
\* changes a config file that exists.  The data root returned is
\* <state-dir>/data and its traces, metrics and logs subdirectories exist.
\* A call that follows a call without error, nothing having been changed
\* in between, returns the same paths and leaves the config as it was.
C27_ResolveKeepsExistingConfig ==
  /\ cf.pc # "idle" =>
       /\ cf.local = cf.atCall.local
       /\ cf.atCall.state.exists => cf.state = cf.atCall.state
  /\ (cf.pc = "done" /\ cf.ret.err = ErrNil) =>
       /\ cf.ret.configPath =
            (IF cf.atCall.local.exists THEN LocalConfigPath ELSE StateConfigPath)
       /\ ~cf.atCall.local.exists =>
            /\ cf.state.exists
            /\ ~cf.atCall.state.exists => cf.state.content = DefaultConfig
       /\ cf.atCall.local.exists => cf.state = cf.atCall.state
       /\ cf.ret.dataPath = DataRoot
       /\ cf.dirs = SignalSet
       /\ cf.prev.valid =>
            /\ cf.ret.configPath = cf.prev.configPath
            /\ cf.ret.dataPath = cf.prev.dataPath
            /\ cf.state = cf.prev.state

\* A second call in a row that finds the config the user has edited in the
\* state directory, and returns it as it is.
C27_Witness ==
  /\ cf.pc = "done" /\ cf.ret.err = ErrNil
  /\ cf.prev.valid
  /\ cf.ret.configPath = StateConfigPath
  /\ cf.state = Present(UserConfig)

(***************************************************************************)
(* Two lotel start commands at the same time.  Each is its own process     *)
(* and walks through Start as above; nothing orders their steps: Start     *)
(* takes no lock, docker and the file system see the steps of both         *)
(* interleaved.  Nothing is running when they begin.                       *)
(***************************************************************************)
\* lotel start, entered whatever the other process is doing (part_007:24-30)
StartConcurrently(p) ==
  /\ pc[p] = "idle"
  /\ spawned < MaxSpawn
  /\ op' = [op EXCEPT ![p] = "Start"]
  /\ loc' = [loc EXCEPT ![p] = [LocInit EXCEPT !.ret = "StartAfterWrite"]]
  /\ snap' = [snap EXCEPT ![p] = Observe(p)]
  /\ Goto(p, "StartIsRunning")
  /\ UNCHANGED <<fsVars, dockerVars, now, res, ghostVars,
                 extVars>>

RaceNext ==
  \E p \in Procs :
    \/ StartConcurrently(p)
    \/ StartIsRunning(p)
    \/ StartExists(p)
    \/ StartRmStale(p)
    \/ StartRemoveState(p)
    \/ StartFindDocker(p)
    \/ StartMkdir(p)
    \/ StartRun(p)
    \/ WriteOpen(p)
    \/ WriteData(p)
    \/ WriteRename(p)
    \/ StartAfterWrite(p)

RaceSpec == Init /\ [][RaceNext]_vars

\* C28: of two starts that run at the same time with nothing running
\* before, neither removes the running collector the other has launched,
\* and when both have returned a running collector has its record: a
\* parseable state file that names it.  (docker holds one container of the
\* name lotel-collector, so two collectors never run at once.)
C28_ConcurrentStartsSafe ==
  /\ \A p \in Procs : op[p] = "Start" => loc[p].kill # "force"
  /\ (\A p \in Procs : Done(p, "Start")) =>
       (container.st = "running" =>
          /\ StoredState # NilState
          /\ StoredState.ContainerID = container.id)

\* C29: a status that says healthy says running: the health endpoint is
\* asked only after the container was found running, so what answers on
\* the health port while no collector runs is never reported.
C29_HealthyImpliesRunning ==
  \A p \in Procs :
    /\ pc[p] = "StatusHealth" => loc[p].sawRunning
    /\ Done(p, "GetStatus") =>
         /\ res[p].status.Healthy => res[p].status.Running
         /\ res[p].status.Healthy => loc[p].sawRunning
         /\ ~loc[p].sawRunning => ~res[p].status.Running

C29_Witness ==
  \E p \in Procs :
    /\ Done(p, "GetStatus")
    /\ res[p].status.Healthy /\ res[p].status.Running

====
